---- MODULE Spec2Model ----
(***************************************************************************)
(* antsQC.py: the centroid correspondence engine (nearest_neighbor_match,  *)
(* hungarian_match, summarize_distances, match_centroids), Spacing, the    *)
(* conversions between microns and index units, TransformConfig, the two   *)
(* transform calls (warp_label_mask, apply_transforms_to_points),          *)
(* MaskDataset and run_pipeline; compute_centroids and hungarian_match of *)
(* tools/labels.py and hungarian_match of antsQC_notebook_code.py; main()  *)
(* and process_job of applyTransform.py and applyTransform_fromManifest.py. *)
(*                                                                         *)
(* Specifications.  Spec and SpecShapes: one call of match_centroids.      *)
(* SpecCalls: repeated calls of match_centroids with the same arguments.   *)
(* SpecHelpers: the copies of hungarian_match on the same arguments.       *)
(* SpecSpacing: Spacing objects.  SpecTransform: one conversion or transform *)
(* call.  SpecDataset: queries of one MaskDataset and writes of the caller *)
(* into what they returned.  SpecPipeline: one run of run_pipeline.        *)
(* SpecBatch: one run of a batch transform script, its worker threads      *)
(* interleaved; SpecBatchFair: the same with every thread scheduled.  The  *)
(* variables of the components a specification does not use keep their    *)
(* initial values.                                                         *)
(*                                                                         *)
(* Library calls.  cKDTree.query, linear_sum_assignment and sort_values may *)
(* answer a tie in any admissible way, and answer the same input the same  *)
(* way every time: the answers given are kept in library.                  *)
(*                                                                         *)
(* Numbers.  The coordinates match_centroids is given are integers.  A     *)
(* distance is kept in fixed point, in units of 1/Scale of the unit of the *)
(* coordinates, rounded down: among the points of one call two pairs of    *)
(* points have the same fixed-point distance exactly when they have the same *)
(* Euclidean distance, and d <= g holds in fixed point exactly when it holds *)
(* for the real numbers (g a multiple of 1/Scale).  In Spec the unit of a  *)
(* coordinate is a micron.  Voxel sizes, index coordinates and the microns *)
(* computed from them are floats of a few bits, kept as multiples of 1/One *)
(* (see "floating point"); in SpecPipeline these are the coordinates       *)
(* match_centroids is given.  Statistics that interpolate (median,         *)
(* percentile, fraction) are exact rationals [num, den].  Indices of       *)
(* sequences are 1-based: index i here is numpy index i-1; the indices of a *)
(* mask are 0-based as in numpy.                                           *)
(***************************************************************************)
EXTENDS Integers, Sequences, FiniteSets, TLC

(* ---------------------------- bounds ----------------------------------- *)
\* largest number of source (confocal) points drawn in Init
MaxN == 2
\* largest number of target (2P) points drawn in Init
MaxM == 2

\* largest number of match_centroids calls a caller follows by another call
MaxCalls == 2

\* largest number of jobs a batch run queues
MaxJobs == 2
\* largest number of worker threads of a batch run
MaxWorkers == 2

\* largest number of queries made of the datasets in one run
MaxQueries == 3

\* fixed-point scale of a distance: 100 units per micron
Scale == 100

\* np.inf, the default of max_distance_um: above every distance and gate
Inf == 1000000000

\* points the bounded inputs are drawn from, as (z, y, x) in microns
PointSet == { <<0, 0, 0>>, <<0, 0, 1>>, <<0, 1, 1>>, <<2, 0, 0>> }

\* finite gates the inputs are drawn from (fixed point): 0, 1.0 and -1.0 um
GateValues == { 0, Scale, 0 - Scale }

\* the hand-built example: two sources against three targets
ExampleSource == << <<0, 0, 0>>, <<10, 10, 10>> >>
ExampleTarget == << <<0, 0, 1>>, <<9, 9, 9>>, <<100, 100, 100>> >>

(* ---------------------------- arithmetic ------------------------------- *)
RECURSIVE SqrtSearch(_, _, _)
\* largest r in lo..hi with r*r <= n, given lo*lo <= n < (hi+1)*(hi+1)
SqrtSearch(n, lo, hi) ==
    IF lo = hi THEN lo
    ELSE LET mid == (lo + hi + 1) \div 2
         IN  IF mid * mid <= n THEN SqrtSearch(n, mid, hi)
                               ELSE SqrtSearch(n, lo, mid - 1)

ISqrt(n) == SqrtSearch(n, 0, 46340)

\* squared Euclidean distance of two points of the same dimension
SqDist(p, q) ==
    LET sq(k) == (p[k] - q[k]) * (p[k] - q[k])
        RECURSIVE acc(_)
        acc(k) == IF k = 0 THEN 0 ELSE sq(k) + acc(k - 1)
    IN  acc(Len(p))

\* every point an input can hold
AllPoints ==
    PointSet \cup { ExampleSource[i] : i \in 1..Len(ExampleSource) }
             \cup { ExampleTarget[i] : i \in 1..Len(ExampleTarget) }

\* the fixed-point square roots of the squared distances that occur
RootTable ==
    [n \in { SqDist(p, q) : p \in AllPoints, q \in AllPoints } |-> ISqrt(Scale * Scale * n)]

\* Euclidean distance in fixed point
Euclid(p, q) ==
    LET n == SqDist(p, q)
    IN  IF n \in DOMAIN RootTable THEN RootTable[n] ELSE ISqrt(Scale * Scale * n)

\* a numpy array given by its entries: the entries are computed once, when
\* the array is built
Array(f) == f \o << >>

RECURSIVE SumSeq(_)
SumSeq(s) == IF s = << >> THEN 0 ELSE Head(s) + SumSeq(Tail(s))

Min2(a, b) == IF a <= b THEN a ELSE b

\* permutations of 1..n as sequences
PermsOf(n) == { p \in [1..n -> 1..n] : \A i, j \in 1..n : p[i] = p[j] => i = j }

\* the entries of s in non-decreasing order
SortedSeq(s) ==
    LET n == Len(s)
        p == CHOOSE q \in PermsOf(n) : \A i \in 1..n, j \in 1..n : i < j => s[q[i]] <= s[q[j]]
    IN  Array([i \in 1..n |-> s[p[i]]])

(* ---------------------------- floating point --------------------------- *)
\* A float is kept as a whole number of quanta of 1/One; the significand of a
\* float has Precision bits (a double has 53), and every result of a
\* division or multiplication is rounded to the nearest such number, a tie
\* going to the even significand (IEEE 754 round-to-nearest-even).
Precision == 4
FracBits == 6

RECURSIVE Pow2(_)
Pow2(k) == IF k = 0 THEN 1 ELSE 2 * Pow2(k - 1)

\* the float 1.0
One == Pow2(FracBits)

\* float(k) of a small integer k
FloatOf(k) == k * One

RECURSIVE BitLen(_)
\* number of binary digits of a natural number
BitLen(n) == IF n = 0 THEN 0 ELSE 1 + BitLen(n \div 2)

\* the float nearest to num / den quanta, num >= 0, den > 0
RoundQuotient(num, den) ==
    LET q    == num \div den
        e    == IF BitLen(q) > Precision THEN BitLen(q) - Precision ELSE 0
        unit == den * Pow2(e)
        m    == num \div unit
        r    == num - m * unit
        up   == 2 * r > unit \/ (2 * r = unit /\ m % 2 = 1)
    IN  (IF up THEN m + 1 ELSE m) * Pow2(e)

\* a * b and a / b of floats a >= 0, b > 0
FMul(a, b) == RoundQuotient(a * b, One)
FDiv(a, b) == RoundQuotient(a * One, b)

(* ---------------------------- state ------------------------------------ *)
VARIABLES
    conf_labels,      \* argument: labels of the source points
    twop_labels,      \* argument: labels of the target points
    conf_in_twop_um,  \* argument: source points, in the target frame
    twop_um,          \* argument: target points
    method,           \* argument: "nn" or "hungarian"
    max_distance_um,  \* argument: the gate; Inf by default
    pc,               \* "call" before the call, then "returned" or "raised"
    error,            \* the exception the call raised, "" when none
    unsorted,         \* the matches frame as built, before sort_values
    matches,          \* returned pairing table
    summary,          \* returned summary
    library,          \* what the library functions have answered so far
    journal,          \* the calls the caller has completed, with their results
    helpers,          \* what the copies of hungarian_match returned, by module
    spacings,         \* the Spacing objects that exist
    spacing_error,    \* the exception a Spacing operation raised, "" when none
    points_um,        \* argument: points in microns, rows of (z,y,x) or (y,x)
    moving_spacing,   \* argument: Spacing of the moving (confocal) space
    fixed_spacing,    \* argument: Spacing of the fixed (2P) space
    transform_config, \* argument: TransformConfig
    ants_module,      \* argument: the external operator, NoModule when absent
    moving_mask,      \* argument: label mask of the moving space
    fixed_mask,       \* argument: label mask of the fixed space
    reference_paths,  \* argument: are the two reference image paths given
    operator_calls,   \* the calls made to the external operator, in order
    moving_idx,       \* the index frame um_to_index_dataframe returned
    out,              \* the value the call returned
    called,           \* the functions called so far, in order
    tpc,              \* "start", then "indexed", "done" or "raised"
    terror,           \* the exception the call raised, "" when none
    datasets,         \* the MaskDataset objects, by name
    answer,           \* what the last query of a dataset returned
    queried,          \* the queries and writes of the caller so far, in order
    views,            \* the datasets whose cached table the answer shares memory with
    run,              \* a batch run: the script, its mode, --force, --dry-run, the workers
    jobs,             \* the jobs main() queued, in order
    disk,             \* the directories, output images, transMetadata.csv and transManifest.csv
    disk0,            \* the disk as the run found it
    thread,           \* for each job, the position and outcome of its process_job call
    manifest_rows,    \* the list main() keeps for transManifest.csv
    results,          \* the list main() collects the results in
    bpc               \* main(): "start", "pool", "append" or "done"

\* the state of a match_centroids call
match_vars == << conf_labels, twop_labels, conf_in_twop_um, twop_um, method,
                 max_distance_um, pc, error, unsorted, matches, summary,
                 library, journal, helpers >>

\* the state of a Spacing object
spacing_vars == << spacings, spacing_error >>

\* the state of a conversion or transform call
transform_args == << points_um, moving_spacing, fixed_spacing, transform_config,
                     ants_module, moving_mask, fixed_mask, reference_paths >>
transform_vars == << transform_args, operator_calls, moving_idx, out, called, tpc, terror >>

\* the state of the MaskDataset objects
dataset_vars == << datasets, answer, queried, views >>

\* the state of a run of a batch transform script
batch_vars == << run, jobs, disk, disk0, thread, manifest_rows, results, bpc >>

vars == << match_vars, spacing_vars, transform_vars, dataset_vars, batch_vars >>

\* what an operation of one component leaves alone
non_match_vars == << spacing_vars, transform_vars, dataset_vars, batch_vars >>
non_spacing_vars == << match_vars, transform_vars, dataset_vars, batch_vars >>
non_transform_vars == << match_vars, spacing_vars, dataset_vars, batch_vars >>
non_dataset_vars == << match_vars, spacing_vars, transform_vars, batch_vars >>
non_batch_vars == << match_vars, spacing_vars, transform_vars, dataset_vars >>

args == << conf_labels, twop_labels, conf_in_twop_um, twop_um, method, max_distance_um >>

(* ---------------------------- matching --------------------------------- *)
\* scipy.spatial.distance.cdist: the full N x M matrix of Euclidean distances
cdist(A, B) == Array([i \in 1..Len(A) |-> Array([j \in 1..Len(B) |-> Euclid(A[i], B[j])])])

\* np.isfinite on a gate
isfinite(x) == x # Inf

\* variant: the query reports a farthest point instead of a nearest one
nearest_neighbor_match_farthest(A_um, B_um) ==
    LET N0 == Len(A_um)
        M0 == Len(B_um)
        D == cdist(A_um, B_um)
        farthest == [i \in 1..N0 |-> { j \in 1..M0 : \A k \in 1..M0 : D[i][j] >= D[i][k] }]
    IN  { [dists |-> Array([i \in 1..N0 |-> D[i][nn[i]]]), nn |-> nn] :
            nn \in { f \in [1..N0 -> 1..M0] : \A i \in 1..N0 : f[i] \in farthest[i] } }

\* cKDTree(B).query(A, k=1): for every point of A one nearest point of B.
\* Which of several equidistant points the tree reports is not fixed by the
\* source, so every choice is a possible result.  A tree of no points
\* reports a missing neighbour: the index n (here M0 + 1) at distance inf.
nearest_neighbor_match(A_um, B_um) ==
    LET N0 == Len(A_um)
        M0 == Len(B_um)
        D == cdist(A_um, B_um)
        nearest == [i \in 1..N0 |->
                      IF M0 = 0 THEN { M0 + 1 }
                      ELSE { j \in 1..M0 : \A k \in 1..M0 : D[i][j] <= D[i][k] }]
    IN  { [dists |-> Array([i \in 1..N0 |-> IF M0 = 0 THEN Inf ELSE D[i][nn[i]]]),
           nn |-> nn] :
            nn \in { f \in [1..N0 -> 1..(M0 + 1)] : \A i \in 1..N0 : f[i] \in nearest[i] } }

\* the cost matrix hungarian_match hands to the solver: entries above a
\* finite max_cost are replaced by max_cost * 10
CostMatrix(A_um, B_um, max_cost) ==
    LET C == cdist(A_um, B_um)
    IN  IF isfinite(max_cost)
        THEN Array([i \in 1..Len(A_um) |-> Array([j \in 1..Len(B_um) |->
                 IF C[i][j] > max_cost THEN max_cost * 10 ELSE C[i][j]])])
        ELSE C

\* the elements of a finite set of integers in increasing order
RECURSIVE SortedOfSet(_)
SortedOfSet(S) ==
    IF S = {} THEN << >>
    ELSE LET m == CHOOSE x \in S : \A y \in S : x <= y
         IN  << m >> \o SortedOfSet(S \ {m})

\* variant: the columns of an assignment need not differ
Assignments_shared(N0, M0) ==
    IF N0 <= M0
    THEN { [row_ind |-> [i \in 1..N0 |-> i], col_ind |-> f] : f \in [1..N0 -> 1..M0] }
    ELSE { [row_ind |-> [i \in 1..M0 |-> i], col_ind |-> f] : f \in [1..M0 -> 1..M0] }

\* complete assignments of an N x M problem: min(N, M) pairs, no row and no
\* column used twice, listed by increasing row
Assignments(N0, M0) ==
    IF N0 <= M0
    THEN { [row_ind |-> [i \in 1..N0 |-> i], col_ind |-> f] :
             f \in { g \in [1..N0 -> 1..M0] : \A i, j \in 1..N0 : g[i] = g[j] => i = j } }
    ELSE { LET rows == SortedOfSet({ g[c] : c \in 1..M0 })
           IN  [row_ind |-> rows,
                col_ind |-> Array([i \in 1..M0 |-> CHOOSE c \in 1..M0 : g[c] = rows[i]])] :
             g \in { h \in [1..M0 -> 1..N0] : \A i, j \in 1..M0 : h[i] = h[j] => i = j } }

AssignmentCost(C, a) == SumSeq([i \in 1..Len(a.row_ind) |-> C[a.row_ind[i]][a.col_ind[i]]])

\* variant: the solver maximises the total cost
linear_sum_assignment_worst(C, N0, M0) ==
    LET all  == Assignments(N0, M0)
        cost == [a \in all |-> AssignmentCost(C, a)]
    IN  { a \in all : \A b \in all : cost[a] >= cost[b] }

\* scipy.optimize.linear_sum_assignment: a complete assignment of minimal
\* total cost; which one of several of equal cost is not fixed by the source
linear_sum_assignment(C, N0, M0) ==
    LET all  == Assignments(N0, M0)
        cost == [a \in all |-> AssignmentCost(C, a)]
    IN  { a \in all : \A b \in all : cost[a] <= cost[b] }

\* variant: dists = C[row_ind, arange], the assigned columns forgotten
hungarian_match_diag(A_um, B_um, max_cost) ==
    LET C == CostMatrix(A_um, B_um, max_cost)
    IN  { [dists   |-> Array([i \in 1..Len(a.row_ind) |-> C[a.row_ind[i]][i]]),
           col_ind |-> a.col_ind,
           row_ind |-> a.row_ind] : a \in linear_sum_assignment(C, Len(A_um), Len(B_um)) }

hungarian_match(A_um, B_um, max_cost) ==
    LET C == CostMatrix(A_um, B_um, max_cost)
    IN  { [dists   |-> Array([i \in 1..Len(a.row_ind) |-> C[a.row_ind[i]][a.col_ind[i]]]),
           col_ind |-> a.col_ind,
           row_ind |-> a.row_ind] : a \in linear_sum_assignment(C, Len(A_um), Len(B_um)) }

(* ---------------------------- summary ---------------------------------- *)
NaN == [nan |-> TRUE, num |-> 0, den |-> 1]
Rat(n, d) == [nan |-> FALSE, num |-> n, den |-> d]

\* dists[valid_mask]: the entries whose mask is true, in order
RECURSIVE MaskSelect(_, _)
MaskSelect(dists, valid_mask) ==
    IF dists = << >> THEN << >>
    ELSE (IF Head(valid_mask) THEN << Head(dists) >> ELSE << >>)
         \o MaskSelect(Tail(dists), Tail(valid_mask))

\* np.median of a non-empty array: the middle value, or the mean of the two
\* middle values
median(v) ==
    LET s == SortedSeq(v)
        n == Len(v)
    IN  IF n % 2 = 1 THEN Rat(2 * s[(n + 1) \div 2], 2)
                     ELSE Rat(s[n \div 2] + s[n \div 2 + 1], 2)

\* np.percentile(v, 90), linear interpolation at position 0.9 * (n - 1)
percentile90(v) ==
    LET s  == SortedSeq(v)
        n  == Len(v)
        t  == 9 * (n - 1)
        lo == t \div 10 + 1
        hi == IF lo < n THEN lo + 1 ELSE n
    IN  Rat(10 * s[lo] + (t % 10) * (s[hi] - s[lo]), 10)

\* variant: the statistics are taken over all distances, the mask ignored
summarize_distances_unmasked(dists, valid_mask) ==
    LET total  == Len(dists)
        within == Cardinality({ i \in 1..Len(valid_mask) : valid_mask[i] })
    IN  IF within > 0
        THEN [N_total |-> total,
              N_within_gate |-> within,
              frac_within_gate |-> Rat(within, total),
              median_um |-> median(dists),
              p90_um |-> percentile90(dists)]
        ELSE [N_total |-> total,
              N_within_gate |-> 0,
              frac_within_gate |-> Rat(0, 1),
              median_um |-> NaN,
              p90_um |-> NaN]

summarize_distances(dists, valid_mask) ==
    LET total  == Len(dists)
        within == Cardinality({ i \in 1..Len(valid_mask) : valid_mask[i] })
        valid_dists == MaskSelect(dists, valid_mask)
    IN  IF within > 0
        THEN [N_total |-> total,
              N_within_gate |-> within,
              frac_within_gate |-> Rat(within, total),
              median_um |-> median(valid_dists),
              p90_um |-> percentile90(valid_dists)]
        ELSE [N_total |-> total,
              N_within_gate |-> 0,
              frac_within_gate |-> Rat(0, 1),
              median_um |-> NaN,
              p90_um |-> NaN]

(* ---------------------------- library ---------------------------------- *)
\* cKDTree.query, linear_sum_assignment and sort_values are deterministic:
\* which of several admissible answers they give is not fixed by the source,
\* but the same input gets the same answer every time.  An answer book is
\* the set of << input, answer >> pairs given so far.
Known(book, input, admissible) ==
    LET given == { e \in book : e[1] = input }
    IN  IF given = {} THEN admissible ELSE { e[2] : e \in given }

\* nothing has been asked of the library
NoAnswers == [query |-> {}, assign |-> {}, sort |-> {}, lsa |-> {}]

\* the library after nearest_neighbor_match on the arguments of the call
\* has answered r
AfterQuery(r) ==
    [library EXCEPT !.query = @ \cup { << << conf_in_twop_um, twop_um >>, r >> }]

\* the library after hungarian_match on the arguments of the call has
\* answered r
AfterAssign(r) ==
    [library EXCEPT !.assign =
        @ \cup { << << conf_in_twop_um, twop_um, max_distance_um >>, r >> }]

(* ---------------------------- match_centroids -------------------------- *)
\* valid = dists <= max_distance_um
GateMask(dists, gate) == Array([i \in 1..Len(dists) |-> dists[i] <= gate])

\* the frame match_centroids builds: the four columns, then the coordinate
\* columns conf_in_twop_um[: len(matches)] and paired_twop_coords[: len(matches)]
BuildFrame(matched_conf, matched_twop, dists, valid, conf_um, paired_twop_coords) ==
    Array([i \in 1..Len(dists) |->
        [conf_label  |-> matched_conf[i],
         twoP_label  |-> matched_twop[i],
         distance_um |-> dists[i],
         within_gate |-> valid[i],
         conf_um     |-> conf_um[i],
         twoP_um     |-> paired_twop_coords[i]]])

\* variant: only the distance column is put in order, the other columns stay
sort_values_column(frame) ==
    LET n == Len(frame)
        d == SortedSeq([i \in 1..n |-> frame[i].distance_um])
    IN  { Array([i \in 1..n |-> [frame[i] EXCEPT !.distance_um = d[i]]]) }

\* matches.sort_values("distance_um").reset_index(drop=True): the rows in
\* non-decreasing distance order; the order of rows of equal distance is not
\* fixed (the default sort is not stable)
sort_values(frame) ==
    LET n == Len(frame)
    IN  { Array([i \in 1..n |-> frame[p[i]]]) :
            p \in { q \in PermsOf(n) :
                      \A i \in 1..n, j \in 1..n :
                          i < j => frame[q[i]].distance_um <= frame[q[j]].distance_um } }

NoSummary == [N_total |-> 0, N_within_gate |-> 0, frac_within_gate |-> Rat(0, 1),
              median_um |-> NaN, p90_um |-> NaN, method |-> "", max_distance_um |-> Inf]

\* variant: the tail sorts the target points in place before it returns
Finish_in_place(matched_conf, matched_twop, paired_twop_coords, dists, lib) ==
    LET valid == GateMask(dists, max_distance_um)
        frame == BuildFrame(matched_conf, matched_twop, dists, valid,
                            conf_in_twop_um, paired_twop_coords)
        s     == summarize_distances(dists, valid)
    IN  /\ unsorted' = frame
        /\ matches' \in Known(lib.sort, frame, sort_values(frame))
        /\ library' = [lib EXCEPT !.sort = @ \cup { << frame, matches' >> }]
        /\ summary' = [N_total |-> s.N_total,
                       N_within_gate |-> s.N_within_gate,
                       frac_within_gate |-> s.frac_within_gate,
                       median_um |-> s.median_um,
                       p90_um |-> s.p90_um,
                       method |-> method,
                       max_distance_um |-> max_distance_um]
        /\ pc' = "returned"
        /\ twop_um' = [i \in 1..Len(twop_um) |-> twop_um[Len(twop_um) + 1 - i]]
        /\ UNCHANGED << conf_labels, twop_labels, conf_in_twop_um, method,
                        max_distance_um, error, journal, helpers, non_match_vars >>

\* the tail of match_centroids, common to both methods
Finish(matched_conf, matched_twop, paired_twop_coords, dists, lib) ==
    LET valid == GateMask(dists, max_distance_um)
        frame == BuildFrame(matched_conf, matched_twop, dists, valid,
                            conf_in_twop_um, paired_twop_coords)
        s     == summarize_distances(dists, valid)
    IN  /\ unsorted' = frame
        /\ matches' \in Known(lib.sort, frame, sort_values(frame))
        /\ library' = [lib EXCEPT !.sort = @ \cup { << frame, matches' >> }]
        /\ summary' = [N_total |-> s.N_total,
                       N_within_gate |-> s.N_within_gate,
                       frac_within_gate |-> s.frac_within_gate,
                       median_um |-> s.median_um,
                       p90_um |-> s.p90_um,
                       method |-> method,
                       max_distance_um |-> max_distance_um]
        /\ pc' = "returned"
        /\ UNCHANGED << args, error, journal, helpers, non_match_vars >>

\* an exception leaves match_centroids: nothing is returned
Raise(e, lib) ==
    /\ pc' = "raised"
    /\ error' = e
    /\ library' = lib
    /\ UNCHANGED << args, unsorted, matches, summary, journal, helpers,
                    non_match_vars >>

\* a[idx] raises IndexError: an index of idx is past the end of a
OutOfBounds(idx, a) == \E i \in 1..Len(idx) : idx[i] > Len(a)

\* variant: matched_conf = conf_labels[nn], the source labels indexed by the
\* target index
MatchNN_conf_by_nn ==
    /\ pc = "call"
    /\ method = "nn"
    /\ \E r \in Known(library.query, << conf_in_twop_um, twop_um >>,
                     nearest_neighbor_match(conf_in_twop_um, twop_um)) :
          IF OutOfBounds(r.nn, conf_labels) \/ OutOfBounds(r.nn, twop_labels)
             \/ OutOfBounds(r.nn, twop_um)
          THEN Raise("IndexError", AfterQuery(r))
          ELSE Finish(Array([i \in 1..Len(r.nn) |-> conf_labels[r.nn[i]]]),
                      Array([i \in 1..Len(r.nn) |-> twop_labels[r.nn[i]]]),
                      Array([i \in 1..Len(r.nn) |-> twop_um[r.nn[i]]]),
                      r.dists, AfterQuery(r))

\* match_centroids(..., method="nn"): twop_labels[nn] and twop_um[nn] raise
\* IndexError on an index past the end, the DataFrame constructor raises
\* ValueError when its columns differ in length
MatchNN ==
    /\ pc = "call"
    /\ method = "nn"
    /\ \E r \in Known(library.query, << conf_in_twop_um, twop_um >>,
                     nearest_neighbor_match(conf_in_twop_um, twop_um)) :
          IF OutOfBounds(r.nn, twop_labels) \/ OutOfBounds(r.nn, twop_um)
          THEN Raise("IndexError", AfterQuery(r))
          ELSE IF Len(conf_labels) # Len(r.dists)
          THEN Raise("ValueError", AfterQuery(r))
          ELSE Finish(conf_labels,
                      Array([i \in 1..Len(r.nn) |-> twop_labels[r.nn[i]]]),
                      Array([i \in 1..Len(r.nn) |-> twop_um[r.nn[i]]]),
                      r.dists, AfterQuery(r))

\* match_centroids(..., method="hungarian"): conf_labels[row_ind] and
\* twop_labels[col_ind] raise IndexError on an index past the end
MatchHungarian ==
    /\ pc = "call"
    /\ method = "hungarian"
    /\ \E r \in Known(library.assign, << conf_in_twop_um, twop_um, max_distance_um >>,
                     hungarian_match(conf_in_twop_um, twop_um, max_distance_um)) :
          IF OutOfBounds(r.row_ind, conf_labels) \/ OutOfBounds(r.col_ind, twop_labels)
          THEN Raise("IndexError", AfterAssign(r))
          ELSE Finish(Array([i \in 1..Len(r.row_ind) |-> conf_labels[r.row_ind[i]]]),
                      Array([i \in 1..Len(r.col_ind) |-> twop_labels[r.col_ind[i]]]),
                      Array([i \in 1..Len(r.col_ind) |-> twop_um[r.col_ind[i]]]),
                      r.dists, AfterAssign(r))

(* ---------------------------- Spacing ---------------------------------- *)
\* the value None: not a number
None == 0 - 1000000

\* magnitudes a caller may pass for an axis: -1.0, 0.0, 1.0, 2.0
Magnitudes == { FloatOf(0 - 1), FloatOf(0), FloatOf(1), FloatOf(2) }

AxisKeys == { "dy", "dx", "dz" }

\* keyword arguments and notebook-style dictionaries: some of the keys, each
\* with a magnitude or None
Mappings ==
    UNION { [keys -> Magnitudes \cup { None }] : keys \in SUBSET AxisKeys }

\* mapping.get(key): None when the key is missing
Get(mapping, key) == IF key \in DOMAIN mapping THEN mapping[key] ELSE None

\* Spacing.ndim
ndim(sp) == IF sp.dz # None THEN 3 ELSE 2

\* Spacing.voxel_tuple: the spacing in the order of the mask axes
voxel_tuple(sp) == IF ndim(sp) = 3 THEN << sp.dz, sp.dy, sp.dx >> ELSE << sp.dy, sp.dx >>

\* a Spacing operation raised e; no object is made or changed
SpacingRaise(e) ==
    /\ spacing_error' = e
    /\ UNCHANGED << spacings, non_spacing_vars >>

\* Spacing(**kwargs), the generated __init__ of the frozen dataclass: dy and
\* dx are required, dz defaults to None, and the values are stored as given
SpacingInit ==
    /\ spacings = {}
    /\ spacing_error = ""
    /\ \E kwargs \in Mappings :
          IF "dy" \notin DOMAIN kwargs \/ "dx" \notin DOMAIN kwargs
          THEN SpacingRaise("TypeError")
          ELSE /\ spacings' = { [dy |-> kwargs["dy"], dx |-> kwargs["dx"],
                                  dz |-> Get(kwargs, "dz")] }
               /\ UNCHANGED << spacing_error, non_spacing_vars >>

\* Spacing.from_mapping(mapping): float(mapping["dy"]), float(mapping["dx"])
\* and float(dz) unless mapping.get("dz") is None
from_mapping ==
    /\ spacings = {}
    /\ spacing_error = ""
    /\ \E mapping \in Mappings :
          LET dz_val == Get(mapping, "dz")
          IN  IF "dy" \notin DOMAIN mapping THEN SpacingRaise("KeyError")
              ELSE IF mapping["dy"] = None THEN SpacingRaise("TypeError")
              ELSE IF "dx" \notin DOMAIN mapping THEN SpacingRaise("KeyError")
              ELSE IF mapping["dx"] = None THEN SpacingRaise("TypeError")
              ELSE /\ spacings' = { [dy |-> mapping["dy"], dx |-> mapping["dx"],
                                      dz |-> dz_val] }
                   /\ UNCHANGED << spacing_error, non_spacing_vars >>

\* sp.dy = v, sp.dx = v or sp.dz = v on an existing Spacing: the dataclass is
\* frozen, __setattr__ raises FrozenInstanceError
SpacingSetAttr ==
    /\ spacings # {}
    /\ spacing_error = ""
    /\ \E sp \in spacings, key \in AxisKeys, v \in Magnitudes :
          SpacingRaise("FrozenInstanceError")

(* ---------------------------- arrays and frames ------------------------ *)
\* the value a function returned, or the exception it raised instead
Ok(v) == [raised |-> "", value |-> v]
Fail(e) == [raised |-> e, value |-> << >>]

\* points.shape[1] of a non-empty two-dimensional array
NCols(points) == Len(points[1])

\* a DataFrame: the column names in order and the column arrays
Frame(columns, col) == [columns |-> columns, col |-> col]

\* df[names]: the named columns, in the order of names
SelectColumns(df, names) ==
    Frame(names, [c \in { names[k] : k \in 1..Len(names) } |-> df.col[c]])

\* len(df)
NRows(df) == Len(df.col[df.columns[1]])

Reverse(s) == [k \in 1..Len(s) |-> s[Len(s) + 1 - k]]

\* the indices of an array of a shape of two or three axes, counted from 0
IndicesOf(shape) ==
    IF Len(shape) = 3
    THEN { << i, j, k >> : i \in 0..(shape[1] - 1), j \in 0..(shape[2] - 1),
                           k \in 0..(shape[3] - 1) }
    ELSE { << i, j >> : i \in 0..(shape[1] - 1), j \in 0..(shape[2] - 1) }

\* an n-dimensional array of labels
NdArray(shape, data, dtype) == [shape |-> shape, data |-> data, dtype |-> dtype]

\* np.transpose(a, (2, 1, 0)): the axes in reverse order
Transpose(a) ==
    NdArray(Reverse(a.shape),
            [idx \in IndicesOf(Reverse(a.shape)) |-> a.data[Reverse(idx)]],
            a.dtype)

\* variant: the array keeps its dtype
astype_kept(a, dtype) == a

\* a.astype(dtype): the labels of the model fit every integer dtype in use
astype(a, dtype) == NdArray(a.shape, a.data, dtype)

(* ---------------------------- conversions ------------------------------ *)
\* um_to_index_dataframe: microns to index units, columns (x, y, z) or (x, y)
um_to_index_dataframe(points, sp) ==
    LET n == Len(points)
    IN  IF ndim(sp) = 3
        THEN IF NCols(points) # 3 THEN Fail("ValueError")
             ELSE LET df == Frame(<< "x", "y", "z" >>,
                               [c \in { "x", "y", "z" } |->
                                  Array([i \in 1..n |->
                                     CASE c = "x" -> FDiv(points[i][3], sp.dx)
                                       [] c = "y" -> FDiv(points[i][2], sp.dy)
                                       [] c = "z" -> FDiv(points[i][1], sp.dz)])])
                  IN  Ok(SelectColumns(df, << "x", "y", "z" >>))
        ELSE IF NCols(points) # 2 THEN Fail("ValueError")
             ELSE LET df == Frame(<< "x", "y" >>,
                               [c \in { "x", "y" } |->
                                  Array([i \in 1..n |->
                                     CASE c = "x" -> FDiv(points[i][2], sp.dx)
                                       [] c = "y" -> FDiv(points[i][1], sp.dy)])])
                  IN  Ok(SelectColumns(df, << "x", "y" >>))

\* variant: the x column is scaled by dz and the z column by dx
index_df_to_um_swapped(df_idx, sp) ==
    LET n == NRows(df_idx)
        has(c) == c \in DOMAIN df_idx.col
    IN  IF ndim(sp) = 3
        THEN IF ~ (has("x") /\ has("y") /\ has("z")) THEN Fail("KeyError")
             ELSE Ok(Array([i \in 1..n |->
                        << FMul(df_idx.col["z"][i], sp.dx),
                           FMul(df_idx.col["y"][i], sp.dy),
                           FMul(df_idx.col["x"][i], sp.dz) >>]))
        ELSE IF ~ (has("x") /\ has("y")) THEN Fail("KeyError")
             ELSE Ok(Array([i \in 1..n |->
                        << FMul(df_idx.col["y"][i], sp.dy),
                           FMul(df_idx.col["x"][i], sp.dx) >>]))

\* index_df_to_um: index units back to microns, rows (z, y, x) or (y, x);
\* df_idx[name] raises KeyError when the frame has no such column
index_df_to_um(df_idx, sp) ==
    LET n == NRows(df_idx)
        has(c) == c \in DOMAIN df_idx.col
    IN  IF ndim(sp) = 3
        THEN IF ~ (has("x") /\ has("y") /\ has("z")) THEN Fail("KeyError")
             ELSE Ok(Array([i \in 1..n |->
                        << FMul(df_idx.col["z"][i], sp.dz),
                           FMul(df_idx.col["y"][i], sp.dy),
                           FMul(df_idx.col["x"][i], sp.dx) >>]))
        ELSE IF ~ (has("x") /\ has("y")) THEN Fail("KeyError")
             ELSE Ok(Array([i \in 1..n |->
                        << FMul(df_idx.col["y"][i], sp.dy),
                           FMul(df_idx.col["x"][i], sp.dx) >>]))

(* ---------------------------- TransformConfig -------------------------- *)
\* invert_flags: None, or a sequence of booleans
NoFlags == [given |-> FALSE, flags |-> << >>]
Flags(f) == [given |-> TRUE, flags |-> f]

\* str(Path(p)): the path without a leading "./"
PathStr(p) == [p EXCEPT !.dot = FALSE]

\* variant: the suffix as written
LowerSuffix_exact(p) == p.suffix

\* Path(p).suffix.lower()
LowerSuffix(p) == IF p.suffix = ".MAT" THEN ".mat" ELSE p.suffix

\* variant: the steps are handed over last first, the flags as given
as_lists_reversed(tc) ==
    LET transform_paths == Reverse(Array([i \in 1..Len(tc.paths) |-> PathStr(tc.paths[i])]))
    IN  IF tc.invert_flags.given
        THEN IF Len(tc.invert_flags.flags) # Len(transform_paths)
             THEN Fail("ValueError")
             ELSE Ok(<< transform_paths, tc.invert_flags.flags >>)
        ELSE Ok(<< transform_paths,
                   Array([i \in 1..Len(transform_paths) |->
                      IF LowerSuffix(transform_paths[i]) = ".mat"
                      THEN tc.invert_affine ELSE FALSE]) >>)

\* TransformConfig.as_lists
as_lists(tc) ==
    LET transform_paths == Array([i \in 1..Len(tc.paths) |-> PathStr(tc.paths[i])])
    IN  IF tc.invert_flags.given
        THEN IF Len(tc.invert_flags.flags) # Len(transform_paths)
             THEN Fail("ValueError")
             ELSE Ok(<< transform_paths, tc.invert_flags.flags >>)
        ELSE Ok(<< transform_paths,
                   Array([i \in 1..Len(transform_paths) |->
                      IF LowerSuffix(transform_paths[i]) = ".mat"
                      THEN tc.invert_affine ELSE FALSE]) >>)

(* ---------------------------- the external operator -------------------- *)
NoModule == "NoModule"

\* an ants_module whose point transform leaves every index where it is
IdentityModule == "identity"

\* ants.apply_transforms_to_points: a frame of the same columns and rows in
\* the index units of the fixed space; the values are the operator's own:
\* the points unmoved (an identity transform) or, unless the operator is the
\* identity, every value halved
OperatorPoints(module, df) ==
    IF module = IdentityModule THEN { df }
    ELSE { df,
           Frame(df.columns,
                 [c \in DOMAIN df.col |->
                    Array([i \in 1..Len(df.col[c]) |-> FDiv(df.col[c][i], FloatOf(2))])]) }

\* an ANTs image: an array in (x, y, z) order and its geometry, either a
\* spacing tuple or the geometry cloned from a reference image
AntsImage(arr, geometry) == [arr |-> arr, geometry |-> geometry]

\* Spacing.ants_spacing
ants_spacing(sp) == IF ndim(sp) = 3 THEN << sp.dx, sp.dy, sp.dz >> ELSE << sp.dx, sp.dy >>

\* _mask_to_ants_image
mask_to_ants_image(mask, sp, like_img, dtype) ==
    LET arr == IF Len(mask.shape) = 3 THEN astype(Transpose(mask), dtype)
                                      ELSE astype(mask, dtype)
    IN  IF like_img THEN AntsImage(arr, << "reference" >>)
                    ELSE AntsImage(arr, ants_spacing(sp))

\* ants.apply_transforms(...).numpy(): an array on the grid of the fixed
\* image, in (x, y, z) order; its labels are the operator's own: here none,
\* or labels that grow along x
OperatorImage(fixed, moving) ==
    { NdArray(fixed.arr.shape, [idx \in IndicesOf(fixed.arr.shape) |-> 0], "float32"),
      NdArray(fixed.arr.shape, [idx \in IndicesOf(fixed.arr.shape) |-> idx[1] + 1], "float32") }

(* ---------------------------- transform calls -------------------------- *)
\* an exception leaves the call; calls already made to the operator stay made
TRaise(e, calls) ==
    /\ tpc' = "raised"
    /\ terror' = e
    /\ operator_calls' = calls
    /\ UNCHANGED << transform_args, moving_idx, out, called, non_transform_vars >>

\* um_to_index_dataframe(points_um, moving_spacing)
UmToIndexDataframe ==
    /\ tpc = "start"
    /\ LET r == um_to_index_dataframe(points_um, moving_spacing)
       IN  IF r.raised # "" THEN TRaise(r.raised, operator_calls)
           ELSE /\ moving_idx' = r.value
                /\ tpc' = "indexed"
                /\ called' = Append(called, "um_to_index_dataframe")
                /\ UNCHANGED << transform_args, operator_calls, out, terror,
                                non_transform_vars >>

\* index_df_to_um(moving_idx, fixed_spacing) on the frame returned before
IndexDfToUm ==
    /\ tpc = "indexed"
    /\ LET r == index_df_to_um(moving_idx, fixed_spacing)
       IN  IF r.raised # "" THEN TRaise(r.raised, operator_calls)
           ELSE /\ out' = r.value
                /\ tpc' = "done"
                /\ called' = Append(called, "index_df_to_um")
                /\ UNCHANGED << transform_args, operator_calls, moving_idx, terror,
                                non_transform_vars >>

\* apply_transforms_to_points(points_um, moving_spacing, fixed_spacing,
\* transform_config, ants_module=ants_module)
ApplyTransformsToPoints ==
    /\ tpc = "start"
    /\ IF ants_module = NoModule THEN TRaise("AntsPyNotAvailableError", operator_calls)
       ELSE LET idx   == um_to_index_dataframe(points_um, moving_spacing)
                lists == as_lists(transform_config)
                dim   == IF ndim(moving_spacing) = 3 THEN 3 ELSE 2
            IN  IF idx.raised # "" THEN TRaise(idx.raised, operator_calls)
                ELSE IF lists.raised # "" THEN TRaise(lists.raised, operator_calls)
                ELSE LET call == [fn |-> "apply_transforms_to_points",
                                  dim |-> dim,
                                  points |-> idx.value,
                                  transformlist |-> lists.value[1],
                                  whichtoinvert |-> lists.value[2]]
                         calls == Append(operator_calls, call)
                     IN  \E fixed_idx \in OperatorPoints(ants_module, idx.value) :
                            LET r == index_df_to_um(fixed_idx, fixed_spacing)
                            IN  IF r.raised # "" THEN TRaise(r.raised, calls)
                                ELSE /\ out' = r.value
                                     /\ operator_calls' = calls
                                     /\ tpc' = "done"
                                     /\ called' = Append(called, "apply_transforms_to_points")
                                     /\ UNCHANGED << transform_args, moving_idx, terror,
                                                     non_transform_vars >>

\* warp_label_mask(moving_mask, moving_spacing, transform_config,
\* fixed_mask=fixed_mask, fixed_spacing=fixed_spacing, ants_module=ants_module,
\* moving_reference_path=..., fixed_reference_path=...)
WarpLabelMask ==
    /\ tpc = "start"
    /\ IF ants_module = NoModule THEN TRaise("AntsPyNotAvailableError", operator_calls)
       ELSE LET mov_img == mask_to_ants_image(moving_mask, moving_spacing,
                                              reference_paths, "int32")
                ref_img == mask_to_ants_image(fixed_mask, fixed_spacing,
                                              reference_paths, "int16")
                lists   == as_lists(transform_config)
            IN  IF lists.raised # "" THEN TRaise(lists.raised, operator_calls)
                ELSE LET call == [fn |-> "apply_transforms",
                                  fixed |-> ref_img,
                                  moving |-> mov_img,
                                  transformlist |-> lists.value[1],
                                  whichtoinvert |-> lists.value[2],
                                  interpolator |-> "nearestNeighbor"]
                     IN  \E warped_xyz \in OperatorImage(ref_img, mov_img) :
                            LET warped == IF Len(moving_mask.shape) = 3
                                          THEN Transpose(warped_xyz) ELSE warped_xyz
                            IN  IF Len(moving_mask.shape) = 3 /\ Len(warped_xyz.shape) # 3
                                THEN TRaise("ValueError", Append(operator_calls, call))
                                ELSE
                                /\ out' = astype(warped, moving_mask.dtype)
                                /\ operator_calls' = Append(operator_calls, call)
                                /\ tpc' = "done"
                                /\ called' = Append(called, "warp_label_mask")
                                /\ UNCHANGED << transform_args, moving_idx, terror,
                                                non_transform_vars >>

(* ---------------------------- MaskDataset ------------------------------ *)
RECURSIVE SumOver(_, _)
\* the sum of axis k of a set of indices
SumOver(S, k) ==
    IF S = {} THEN 0
    ELSE LET idx == CHOOSE x \in S : TRUE
         IN  idx[k] + SumOver(S \ { idx }, k)

\* df.rename(columns=names): names is a function from old to new names
Rename(df, names) ==
    LET new(c) == IF c \in DOMAIN names THEN names[c] ELSE c
        columns == [k \in 1..Len(df.columns) |-> new(df.columns[k])]
    IN  Frame(columns,
              [c \in { columns[k] : k \in 1..Len(columns) } |->
                  df.col[df.columns[CHOOSE k \in 1..Len(columns) : columns[k] = c]]])

\* variant: one row for every label value from 1 to the largest label, the
\* centroid of a label that does not occur being the origin
regionprops_table_dense(mask) ==
    LET present == { mask.data[idx] : idx \in DOMAIN mask.data }
        top     == IF present = {} THEN 0 ELSE CHOOSE m \in present : \A l \in present : l <= m
        labels  == SortedOfSet(1..top)
        n       == Len(labels)
        d       == Len(mask.shape)
        voxels(l) == { idx \in DOMAIN mask.data : mask.data[idx] = l }
        centroid(l, k) ==
            IF voxels(l) = {} THEN 0
            ELSE RoundQuotient(One * SumOver(voxels(l), k), Cardinality(voxels(l)))
        names   == << "label" >> \o [k \in 1..d |->
                       CASE k = 1 -> "centroid-0" [] k = 2 -> "centroid-1" [] k = 3 -> "centroid-2"]
    IN  Frame(names,
              [c \in { names[k] : k \in 1..Len(names) } |->
                  Array([i \in 1..n |->
                     CASE c = "label" -> labels[i]
                       [] c = "centroid-0" -> centroid(labels[i], 1)
                       [] c = "centroid-1" -> centroid(labels[i], 2)
                       [] c = "centroid-2" -> centroid(labels[i], 3)])])

\* skimage.measure.regionprops_table(mask, properties=("label", "centroid")):
\* one row for every label above 0 that occurs, in increasing order, with the
\* mean index of its voxels along every axis
regionprops_table(mask) ==
    LET labels == SortedOfSet({ mask.data[idx] : idx \in DOMAIN mask.data } \ { 0 })
        n      == Len(labels)
        d      == Len(mask.shape)
        voxels(l) == { idx \in DOMAIN mask.data : mask.data[idx] = l }
        centroid(l, k) ==
            RoundQuotient(One * SumOver(voxels(l), k), Cardinality(voxels(l)))
        names  == << "label" >> \o [k \in 1..d |->
                      CASE k = 1 -> "centroid-0" [] k = 2 -> "centroid-1" [] k = 3 -> "centroid-2"]
    IN  Frame(names,
              [c \in { names[k] : k \in 1..Len(names) } |->
                  Array([i \in 1..n |->
                     CASE c = "label" -> labels[i]
                       [] c = "centroid-0" -> centroid(labels[i], 1)
                       [] c = "centroid-1" -> centroid(labels[i], 2)
                       [] c = "centroid-2" -> centroid(labels[i], 3)])])

\* tools/labels.py compute_centroids: the table with the columns renamed to
\* z, y, x and the rows of label 0 dropped
compute_centroids(mask) ==
    LET df   == Rename(regionprops_table(mask),
                       [c \in { "centroid-0", "centroid-1", "centroid-2" } |->
                          CASE c = "centroid-0" -> "z" [] c = "centroid-1" -> "y"
                            [] c = "centroid-2" -> "x"])
        keep == { i \in 1..NRows(df) : df.col["label"][i] # 0 }
        rows == SortedOfSet(keep)
    IN  Frame(df.columns,
              [c \in DOMAIN df.col |-> Array([i \in 1..Len(rows) |-> df.col[c][rows[i]]])])

\* _centroids_idx is None
NoTable == Frame(<< >>, << >>)

\* a MaskDataset: spacing, mask and the cached centroid table
MaskDataset(sp, mask) == [spacing |-> sp, mask |-> mask, centroids_idx |-> NoTable]

\* MaskDataset._ensure_centroids: the cached table, computed from the mask
\* when there is none
ensure_centroids(ds) ==
    IF ds.centroids_idx = NoTable
    THEN LET df == regionprops_table(ds.mask)
         IN  IF ndim(ds.spacing) = 3
             THEN Rename(df, [c \in { "centroid-0", "centroid-1", "centroid-2" } |->
                                CASE c = "centroid-0" -> "z" [] c = "centroid-1" -> "y"
                                  [] c = "centroid-2" -> "x"])
             ELSE Rename(df, [c \in { "centroid-0", "centroid-1" } |->
                                CASE c = "centroid-0" -> "y" [] c = "centroid-1" -> "x"])
    ELSE ds.centroids_idx

\* the dataset after _ensure_centroids
Cached(ds) == [ds EXCEPT !.centroids_idx = ensure_centroids(ds)]

\* MaskDataset.centroid_indices: a copy of the table
centroid_indices(ds) == Ok(ensure_centroids(ds))

\* MaskDataset.labels: the label column
labels(ds) == Ok(ensure_centroids(ds).col["label"])

\* variant: every axis is scaled by dx
centroid_positions_um_dx(ds) ==
    LET df == ensure_centroids(ds)
    IN  Ok(Array([i \in 1..NRows(df) |->
              [k \in 1..(Len(df.columns) - 1) |->
                  FMul(df.col[df.columns[k + 1]][i], ds.spacing.dx)]]))

\* MaskDataset.centroid_positions_um: the centroids in microns, rows (z,y,x)
\* or (y,x); df[[...]] raises KeyError when a column is missing
centroid_positions_um(ds) ==
    LET df == ensure_centroids(ds)
        n  == NRows(df)
        has(c) == c \in DOMAIN df.col
    IN  IF ndim(ds.spacing) = 3
        THEN IF ~ (has("z") /\ has("y") /\ has("x")) THEN Fail("KeyError")
             ELSE Ok(Array([i \in 1..n |->
                        << FMul(df.col["z"][i], ds.spacing.dz),
                           FMul(df.col["y"][i], ds.spacing.dy),
                           FMul(df.col["x"][i], ds.spacing.dx) >>]))
        ELSE IF ~ (has("y") /\ has("x")) THEN Fail("KeyError")
             ELSE Ok(Array([i \in 1..n |->
                        << FMul(df.col["y"][i], ds.spacing.dy),
                           FMul(df.col["x"][i], ds.spacing.dx) >>]))

\* label values of the masks: background, 1 and 3 (2 does not occur)
LabelValues == { 0, 1, 3 }

\* every mask of shape (Z,Y,X) = (1,2,2) and of shape (Y,X) = (2,2)
DatasetMasks ==
    { NdArray(shape, data, "uint16") :
        shape \in { << 1, 2, 2 >> }, data \in [IndicesOf(<< 1, 2, 2 >>) -> LabelValues] }
    \cup
    { NdArray(shape, data, "uint16") :
        shape \in { << 2, 2 >> }, data \in [IndicesOf(<< 2, 2 >>) -> LabelValues] }

\* the volumes a mask is replaced by
ReplacementMasks ==
    { NdArray(<< 1, 2, 2 >>, [idx \in IndicesOf(<< 1, 2, 2 >>) |-> 0], "uint16"),
      NdArray(<< 1, 2, 2 >>, [idx \in IndicesOf(<< 1, 2, 2 >>) |-> IF idx[3] = 1 THEN 3 ELSE 0], "uint16"),
      NdArray(<< 2, 2 >>, [idx \in IndicesOf(<< 2, 2 >>) |-> IF idx = << 1, 1 >> THEN 1 ELSE 0], "uint16") }

\* variant: the table or column is handed out as it is, not copied
copy_view(name) == { name }

\* DataFrame.copy() and to_numpy(copy=True): the value handed out shares no
\* memory with the cached table
copy(name) == {}

\* a value after the caller has overwritten every number in it with 0
ScribbleTable(df) ==
    Frame(df.columns, [c \in DOMAIN df.col |-> [i \in 1..Len(df.col[c]) |-> 0]])
Scribble(q, v) ==
    CASE q \in { "centroid_indices", "compute_centroids" } -> ScribbleTable(v)
      [] q = "labels" -> [i \in 1..Len(v) |-> 0]
      [] q = "centroid_positions_um" -> [i \in 1..Len(v) |-> [k \in 1..Len(v[i]) |-> 0]]

\* the three queries of a MaskDataset
Queries == { "centroid_indices", "labels", "centroid_positions_um" }

Query(q, ds) ==
    CASE q = "centroid_indices" -> centroid_indices(ds)
      [] q = "labels" -> labels(ds)
      [] q = "centroid_positions_um" -> centroid_positions_um(ds)

\* ds.centroid_indices(), ds.labels() or ds.centroid_positions_um() on one of
\* the datasets: the table is cached by the call
DatasetQuery ==
    /\ Len(queried) < MaxQueries
    /\ \E name \in DOMAIN datasets, q \in Queries :
          /\ answer' = Query(q, datasets[name])
          /\ datasets' = [datasets EXCEPT ![name] = Cached(datasets[name])]
          /\ queried' = Append(queried, << name, q >>)
          /\ views' = IF q = "centroid_positions_um" THEN {} ELSE copy(name)
          /\ UNCHANGED non_dataset_vars

\* the caller writes into the value the last query returned, e.g.
\* table.loc[:, :] = 0 or arr[:] = 0; whatever shares its memory changes too
ModifyAnswer ==
    /\ queried # << >>
    /\ Len(queried) < MaxQueries
    /\ answer.raised = ""
    /\ LET last == queried[Len(queried)]
       IN  /\ last[2] # "write"
           /\ answer' = Ok(Scribble(last[2], answer.value))
           /\ queried' = Append(queried, << last[1], "write" >>)
    /\ datasets' = [name \in DOMAIN datasets |->
                      IF name \in views
                      THEN [datasets[name] EXCEPT
                              !.centroids_idx = ScribbleTable(datasets[name].centroids_idx)]
                      ELSE datasets[name]]
    /\ UNCHANGED << views, non_dataset_vars >>

\* ds.mask = volume: MaskDataset is a plain dataclass, the field is assigned
SetMask ==
    /\ \E name \in DOMAIN datasets, volume \in ReplacementMasks :
          /\ Len(volume.shape) = Len(datasets[name].mask.shape)
          /\ volume # datasets[name].mask
          /\ datasets' = [datasets EXCEPT ![name].mask = volume]
          /\ UNCHANGED << answer, queried, views, non_dataset_vars >>

\* compute_centroids(mask) of tools/labels.py on the mask of a dataset
ComputeCentroids ==
    /\ Len(queried) < MaxQueries
    /\ \E name \in DOMAIN datasets :
          /\ Len(datasets[name].mask.shape) = 3
          /\ answer' = Ok(compute_centroids(datasets[name].mask))
          /\ queried' = Append(queried, << name, "compute_centroids" >>)
          /\ views' = {}
          /\ UNCHANGED << datasets, non_dataset_vars >>

(* ---------------------------- run_pipeline ----------------------------- *)
\* an exception leaves run_pipeline: the tables cached so far stay cached
PipelineRaise(e, calls, dsets) ==
    /\ tpc' = "raised"
    /\ terror' = e
    /\ operator_calls' = calls
    /\ datasets' = dsets
    /\ UNCHANGED << transform_args, moving_idx, out, called, match_vars,
                    spacing_vars, answer, queried, views, batch_vars >>

\* run_pipeline up to the call of match_centroids: the confocal mask is
\* warped, the centroids of both datasets are read, and the confocal centroids
\* are carried into the 2P space; match_centroids is then called with them
RunPipeline ==
    /\ tpc = "pipeline"
    /\ LET conf == datasets["conf"]
           twop == datasets["twop"]
       IN  IF ants_module = NoModule
           THEN PipelineRaise("AntsPyNotAvailableError", operator_calls, datasets)
           ELSE
           LET mov_img == mask_to_ants_image(conf.mask, conf.spacing, reference_paths, "int32")
               ref_img == mask_to_ants_image(twop.mask, twop.spacing, reference_paths, "int16")
               lists   == as_lists(transform_config)
               warp    == [fn |-> "apply_transforms",
                           fixed |-> ref_img,
                           moving |-> mov_img,
                           transformlist |-> lists.value[1],
                           whichtoinvert |-> lists.value[2],
                           interpolator |-> "nearestNeighbor"]
               calls1  == Append(operator_calls, warp)
               dsets   == [name \in DOMAIN datasets |-> Cached(datasets[name])]
               conf_centroids_idx == centroid_indices(conf).value
               twop_centroids_idx == centroid_indices(twop).value
               conf_centroids_um  == centroid_positions_um(dsets["conf"])
               twop_centroids_um  == centroid_positions_um(dsets["twop"])
           IN  IF lists.raised # "" THEN PipelineRaise(lists.raised, operator_calls, datasets)
               ELSE IF conf_centroids_um.raised # ""
               THEN PipelineRaise(conf_centroids_um.raised, calls1, dsets)
               ELSE IF twop_centroids_um.raised # ""
               THEN PipelineRaise(twop_centroids_um.raised, calls1, dsets)
               ELSE
               LET idx == um_to_index_dataframe(conf_centroids_um.value, conf.spacing)
                   dim == IF ndim(conf.spacing) = 3 THEN 3 ELSE 2
               IN  IF idx.raised # "" THEN PipelineRaise(idx.raised, calls1, dsets)
                   ELSE
                   LET points == [fn |-> "apply_transforms_to_points",
                                  dim |-> dim,
                                  points |-> idx.value,
                                  transformlist |-> lists.value[1],
                                  whichtoinvert |-> lists.value[2]]
                       calls2 == Append(calls1, points)
                   IN  \E warped_xyz \in OperatorImage(ref_img, mov_img) :
                       \E fixed_idx \in OperatorPoints(ants_module, idx.value) :
                          LET warped == IF Len(conf.mask.shape) = 3
                                        THEN Transpose(warped_xyz) ELSE warped_xyz
                              r == index_df_to_um(fixed_idx, twop.spacing)
                          IN  IF r.raised # "" THEN PipelineRaise(r.raised, calls2, dsets)
                              ELSE /\ out' = astype(warped, conf.mask.dtype)
                                   /\ operator_calls' = calls2
                                   /\ datasets' = dsets
                                   /\ called' = called \o << "warp_label_mask",
                                                             "apply_transforms_to_points" >>
                                   /\ tpc' = "done"
                                   /\ conf_labels' = conf_centroids_idx.col["label"]
                                   /\ twop_labels' = twop_centroids_idx.col["label"]
                                   /\ conf_in_twop_um' = r.value
                                   /\ twop_um' = twop_centroids_um.value
                                   /\ pc' = "call"
                                   /\ UNCHANGED << method, max_distance_um, error, unsorted,
                                                   matches, summary, library, journal, helpers,
                                                   transform_args,
                                                   moving_idx, terror, spacing_vars,
                                                   answer, queried, views, batch_vars >>

(* ---------------------------- batch scripts ------------------------- *)
\* the contents of a path: a file that is not there, a file the run found,
\* the image job j wrote, and what an interrupted write of job j left
\* (written j and 0 - 1 - j)
Absent == 0
Old == 0 - 1

\* the header line and the rows of transManifest.csv; a row of a run carries
\* the job it is about
HeaderRow == [job |-> 0, status |-> "header"]

\* a disk no batch script has run on, and one an earlier run has left
\* danin_dir, transMetadata.csv and a transManifest.csv of one row on; the
\* parent directory of an output that exists is there
Disk(files, used) ==
    [danin_dir |-> used,
     out_dirs |-> { p \in DOMAIN files : files[p] # Absent },
     files |-> files,
     metadata |-> IF used THEN Old ELSE Absent,
     log |-> IF used THEN << HeaderRow, [job |-> 0 - 1, status |-> "success"] >> ELSE << >>]

\* Path.exists()
Exists(d, path) == d.files[path] # Absent

\* main() up to the thread pool: danin_dir.mkdir(...), then the jobs are
\* listed, the directory of each output being made unless --dry-run is given
Setup ==
    /\ bpc = "start"
    /\ disk' = [disk EXCEPT !.danin_dir = TRUE,
                            !.out_dirs = @ \cup (IF run.dry_run THEN {}
                                                 ELSE { jobs[j].out_path : j \in DOMAIN jobs })]
    /\ bpc' = "pool"
    /\ UNCHANGED << run, jobs, disk0, thread, manifest_rows, results, non_batch_vars >>

\* ThreadPoolExecutor.map: a free worker takes the next job of the queue.
\* process_job up to its try block: the job is skipped when its output
\* exists and --force is not given, and only reported under --dry-run
Begin(j) ==
    /\ bpc = "pool"
    /\ thread[j].pc = "queued"
    /\ \A i \in 1..(j - 1) : thread[i].pc # "queued"
    /\ Cardinality({ i \in DOMAIN thread : thread[i].pc \in { "running", "recording" } })
          < run.max_workers
    /\ thread' = [thread EXCEPT ![j] =
                    IF Exists(disk, jobs[j].out_path) /\ ~run.force
                    THEN [pc |-> "returned", status |-> "skipped"]
                    ELSE IF run.dry_run
                         THEN [pc |-> "returned", status |-> "dry_run"]
                         ELSE [pc |-> "running", status |-> ""]]
    /\ UNCHANGED << run, jobs, disk, disk0, manifest_rows, results, bpc, non_batch_vars >>

\* variant: the exception leaves process_job
except_reraise(e) == [pc |-> "died", status |-> ""]

\* except Exception as e: the job goes on to record its failure
except_Exception(e) == [pc |-> "recording", status |-> "failed"]

\* the try block of process_job up to ants.image_write: reading or
\* transforming raises and the disk is as it was, writing raises and the
\* output is as it was or half written, or the image is written
Transform(j) ==
    /\ bpc = "pool"
    /\ thread[j].pc = "running"
    /\ LET path == jobs[j].out_path
       IN  \/ /\ thread' = [thread EXCEPT ![j] = except_Exception("read")]
              /\ disk' = disk
           \/ /\ thread' = [thread EXCEPT ![j] = except_Exception("write")]
              /\ disk' = [disk EXCEPT !.files[path] = 0 - 1 - j]
           \/ /\ thread' = [thread EXCEPT ![j] = [pc |-> "recording", status |-> "success"]]
              /\ disk' = [disk EXCEPT !.files[path] = j]
    /\ UNCHANGED << run, jobs, disk0, manifest_rows, results, bpc, non_batch_vars >>

\* manifest_rows.append({... 'status': 'success' or 'failed' ...}) and the
\* return of process_job
Record(j) ==
    /\ bpc = "pool"
    /\ thread[j].pc = "recording"
    /\ manifest_rows' = Append(manifest_rows, [job |-> j, status |-> thread[j].status])
    /\ thread' = [thread EXCEPT ![j].pc = "returned"]
    /\ UNCHANGED << run, jobs, disk, disk0, results, bpc, non_batch_vars >>

\* for res in executor.map(process_job, jobs): results.append(res); map
\* yields the result of the next job of the queue once that job has returned
Collect ==
    /\ bpc = "pool"
    /\ Len(results) < Len(jobs)
    /\ LET j == Len(results) + 1
       IN  /\ thread[j].pc = "returned"
           /\ results' = Append(results, [job |-> j, status |-> thread[j].status,
                                          out_path |-> jobs[j].out_path])
    /\ UNCHANGED << run, jobs, disk, disk0, thread, manifest_rows, bpc, non_batch_vars >>

\* after the pool: meta_df.to_csv(metadata_path), in applyTransform.py in
\* scan mode for the fish it found directories of, in
\* applyTransform_fromManifest.py always
WriteMetadata ==
    /\ bpc = "pool"
    /\ Len(results) = Len(jobs)
    /\ disk' = IF \/ run.script = "applyTransform_fromManifest"
                  \/ run.script = "applyTransform" /\ run.mode = "scan" /\ jobs # << >>
               THEN [disk EXCEPT !.metadata = 1]
               ELSE disk
    /\ bpc' = "append"
    /\ UNCHANGED << run, jobs, disk0, thread, manifest_rows, results, non_batch_vars >>

\* variant: to_csv(manifest_path, mode='w')
to_csv_w(log, rows) == << HeaderRow >> \o rows

\* manifest_df.to_csv(manifest_path, mode='a', header=not manifest_path.exists())
to_csv_a(log, rows) == IF log = << >> THEN << HeaderRow >> \o rows ELSE log \o rows

\* the end of main(): the rows are appended to transManifest.csv unless
\* there is none
AppendManifest ==
    /\ bpc = "append"
    /\ disk' = IF manifest_rows # << >>
               THEN [disk EXCEPT !.log = to_csv_a(disk.log, manifest_rows)]
               ELSE disk
    /\ bpc' = "done"
    /\ UNCHANGED << run, jobs, disk0, thread, manifest_rows, results, non_batch_vars >>

(* ---------------------------- idle components ----------------------- *)
\* no batch script runs
NoBatch ==
    /\ run = [script |-> "", mode |-> "", force |-> FALSE, dry_run |-> FALSE, max_workers |-> 0]
    /\ jobs = << >>
    /\ disk = Disk(<< >>, FALSE)
    /\ disk0 = disk
    /\ thread = << >>
    /\ manifest_rows = << >>
    /\ results = << >>
    /\ bpc = "idle"

\* no Spacing object is involved
NoSpacings ==
    /\ spacings = {}
    /\ spacing_error = ""

\* no match_centroids call is involved
NoMatch ==
    /\ conf_labels = << >>
    /\ twop_labels = << >>
    /\ conf_in_twop_um = << >>
    /\ twop_um = << >>
    /\ method = ""
    /\ max_distance_um = Inf
    /\ pc = "idle"
    /\ error = ""
    /\ unsorted = << >>
    /\ matches = << >>
    /\ summary = NoSummary
    /\ library = NoAnswers
    /\ journal = << >>
    /\ helpers = {}

\* no MaskDataset is involved
NoDatasets ==
    /\ datasets = << >>
    /\ answer = Ok(<< >>)
    /\ queried = << >>
    /\ views = {}

(* ---------------------------- transform inputs ------------------------- *)
\* largest number of rows of a point array, and of steps of a TransformConfig
MaxRows == 2
MaxSteps == 2

\* 0.25
Quarter == One \div 4

\* rows of micron coordinates: (1.0, 3.25, 0.0), (3.25, 1.0, 1.0), (0.0, 0.0, 3.25)
\* and (1.0, 3.25), (3.25, 0.0)
\* in point arrays of 1..MaxRows rows, all rows of the same width
PointArrays ==
    LET PointRows3D == { << FloatOf(1), 13 * Quarter, 0 >>,
                         << 13 * Quarter, FloatOf(1), FloatOf(1) >>,
                         << 0, 0, 13 * Quarter >> }
        PointRows2D == { << FloatOf(1), 13 * Quarter >>, << 13 * Quarter, 0 >> }
    IN  UNION { [1..n -> PointRows3D] \cup [1..n -> PointRows2D] : n \in 1..MaxRows }

\* Spacing objects of both dimensionalities, no two axes alike in the first
SpacingInputs ==
    { [dy |-> FloatOf(1), dx |-> 6 * Quarter, dz |-> FloatOf(2)],
      [dy |-> FloatOf(1), dx |-> FloatOf(1), dz |-> FloatOf(1)],
      [dy |-> FloatOf(1), dx |-> 6 * Quarter, dz |-> None],
      [dy |-> FloatOf(2), dx |-> 2 * Quarter, dz |-> None] }

\* TransformConfig objects of 0..MaxSteps transform files, named as a caller
\* names them: "./warp.nii.gz" and "affine.MAT"
TransformConfigs ==
    LET StepPaths == { [dot |-> TRUE, stem |-> "warp.nii", suffix |-> ".gz"],
                       [dot |-> FALSE, stem |-> "affine", suffix |-> ".MAT"] }
    IN  { [paths |-> ps, invert_flags |-> fl, invert_affine |-> ia] :
            ps \in UNION { [1..n -> StepPaths] : n \in 0..MaxSteps },
            fl \in { NoFlags } \cup { Flags(f) : f \in UNION { [1..n -> BOOLEAN] : n \in 0..MaxSteps } },
            ia \in BOOLEAN }

\* a TransformConfig of one warp and no flags
PlainConfig ==
    [paths |-> << [dot |-> FALSE, stem |-> "warp.nii", suffix |-> ".gz"] >>,
     invert_flags |-> NoFlags, invert_affine |-> TRUE]

\* small label masks: (Z,Y,X) = (1,1,2), (Y,X) = (1,2) and (2,1)
MovingMasks ==
    { NdArray(<< 1, 1, 2 >>, [idx \in IndicesOf(<< 1, 1, 2 >>) |-> idx[3] * 3], "uint16"),
      NdArray(<< 1, 2 >>, [idx \in IndicesOf(<< 1, 2 >>) |-> idx[2] * 3], "uint16") }
FixedMasks ==
    { NdArray(<< 1, 1, 2 >>, [idx \in IndicesOf(<< 1, 1, 2 >>) |-> idx[3]], "int64"),
      NdArray(<< 2, 1 >>, [idx \in IndicesOf(<< 2, 1 >>) |-> idx[1]], "int64") }

\* no conversion or transform call is involved
NoTransform ==
    /\ points_um = << >>
    /\ moving_spacing = [dy |-> FloatOf(1), dx |-> FloatOf(1), dz |-> FloatOf(1)]
    /\ fixed_spacing = [dy |-> FloatOf(1), dx |-> FloatOf(1), dz |-> FloatOf(1)]
    /\ transform_config = PlainConfig
    /\ ants_module = NoModule
    /\ moving_mask = NdArray(<< >>, << >>, "")
    /\ fixed_mask = NdArray(<< >>, << >>, "")
    /\ reference_paths = FALSE
    /\ operator_calls = << >>
    /\ moving_idx = Frame(<< >>, << >>)
    /\ out = << >>
    /\ called = << >>
    /\ tpc = "idle"
    /\ terror = ""

\* the arguments of a conversion or transform call: points against every
\* pair of spacings, every TransformConfig, and masks with their spacings
InitTransform ==
    /\ NoMatch
    /\ NoSpacings
    /\ NoDatasets
    /\ NoBatch
    /\ \/ /\ points_um \in PointArrays
          /\ moving_spacing \in SpacingInputs
          /\ fixed_spacing \in SpacingInputs
          /\ transform_config = PlainConfig
          /\ ants_module = "ants"
          /\ moving_mask \in { a \in MovingMasks : Len(a.shape) = ndim(moving_spacing) }
          /\ fixed_mask \in { a \in FixedMasks : Len(a.shape) = ndim(fixed_spacing) }
          /\ reference_paths = FALSE
       \/ /\ points_um = << << FloatOf(1), 13 * Quarter, 0 >> >>
          /\ moving_spacing \in { sp \in SpacingInputs : ndim(sp) = 3 }
          /\ fixed_spacing = moving_spacing
          /\ transform_config \in TransformConfigs
          /\ ants_module \in { NoModule, "ants" }
          /\ moving_mask \in { a \in MovingMasks : Len(a.shape) = 3 }
          /\ fixed_mask \in { a \in FixedMasks : Len(a.shape) = 3 }
          /\ reference_paths \in BOOLEAN
    /\ operator_calls = << >>
    /\ moving_idx = Frame(<< >>, << >>)
    /\ out = << >>
    /\ called = << >>
    /\ tpc = "start"
    /\ terror = ""

NextTransform ==
    UmToIndexDataframe \/ IndexDfToUm \/ ApplyTransformsToPoints \/ WarpLabelMask

SpecTransform == InitTransform /\ [][NextTransform]_vars

(* ---------------------------- dataset inputs --------------------------- *)
\* one dataset called "conf": any mask, with a Spacing of its dimensionality
InitDataset ==
    /\ NoMatch
    /\ NoBatch
    /\ NoSpacings
    /\ NoTransform
    /\ \E mask \in DatasetMasks, sp \in SpacingInputs :
          /\ ndim(sp) = Len(mask.shape)
          /\ sp.dy # sp.dx
          /\ datasets = [name \in { "conf" } |-> MaskDataset(sp, mask)]
    /\ answer = Ok(<< >>)
    /\ queried = << >>
    /\ views = {}

NextDataset == DatasetQuery \/ SetMask \/ ComputeCentroids \/ ModifyAnswer

SpecDataset == InitDataset /\ [][NextDataset]_vars

(* ---------------------------- specification ---------------------------- *)
\* arrays of at most n different points of S, the array of no points included
SeqsUpTo(S, n) ==
    UNION { { f \in [1..k -> S] : \A i, j \in 1..k : f[i] = f[j] => i = j } : k \in 0..n }

\* label arrays of n distinct labels, neither contiguous nor equal to the
\* index: descending for the source, ascending for the target
SourceLabels(n) == [i \in 1..n |-> 10 * (n - i) + 7]
TargetLabels(n) == [i \in 1..n |-> 3 * i + 2]

\* the methods match_centroids accepts; any other raises ValueError at once
Methods == { "nn", "hungarian" }

PointInputs ==
    (SeqsUpTo(PointSet, MaxN) \X SeqsUpTo(PointSet, MaxM))
        \cup { << ExampleSource, ExampleTarget >> }

Init ==
    /\ NoSpacings
    /\ NoTransform
    /\ NoDatasets
    /\ NoBatch
    /\ \E pp \in PointInputs :
          /\ conf_in_twop_um = pp[1]
          /\ twop_um = pp[2]
          /\ conf_labels = SourceLabels(Len(pp[1]))
          /\ twop_labels = TargetLabels(Len(pp[2]))
    /\ method \in Methods
    /\ max_distance_um \in GateValues \cup { Inf }
    /\ pc = "call"
    /\ error = ""
    /\ unsorted = << >>
    /\ matches = << >>
    /\ summary = NoSummary
    /\ library = NoAnswers
    /\ journal = << >>
    /\ helpers = {}

Next == MatchNN \/ MatchHungarian

Spec == Init /\ [][Next]_vars

\* points of the calls whose label arrays need not be as long as the points
ShapePointSet == { <<0, 0, 0>>, <<2, 0, 0>> }

\* calls with label arrays of any length up to one more than the bound,
\* whatever the number of points
InitShapes ==
    /\ NoSpacings
    /\ NoTransform
    /\ NoDatasets
    /\ NoBatch
    /\ conf_in_twop_um \in SeqsUpTo(ShapePointSet, MaxN)
    /\ twop_um \in SeqsUpTo(ShapePointSet, MaxM)
    /\ \E n \in 0..(MaxN + 1) : conf_labels = SourceLabels(n)
    /\ \E m \in 0..(MaxM + 1) : twop_labels = TargetLabels(m)
    /\ method \in Methods
    /\ max_distance_um \in GateValues \cup { Inf }
    /\ pc = "call"
    /\ error = ""
    /\ unsorted = << >>
    /\ matches = << >>
    /\ summary = NoSummary
    /\ library = NoAnswers
    /\ journal = << >>
    /\ helpers = {}

SpecShapes == InitShapes /\ [][Next]_vars

\* the life of a Spacing: construction, then attempts to change it
InitSpacing == NoMatch /\ NoSpacings /\ NoTransform /\ NoDatasets /\ NoBatch

NextSpacing == SpacingInit \/ from_mapping \/ SpacingSetAttr

SpecSpacing == InitSpacing /\ [][NextSpacing]_vars

\* the output paths of n jobs, paths being numbered by their first use
OutputPaths(n) ==
    { f \in [1..n -> 1..n] :
        \A j \in 1..n : \/ \E i \in 1..(j - 1) : f[i] = f[j]
                        \/ \A p \in 1..n : (\E i \in 1..(j - 1) : f[i] = p) <=> p < f[j] }

\* one run of a batch script.  In scan mode each job has its own output
\* path, derived from its moving file; a manifest may name one path twice
InitBatch ==
    /\ NoMatch
    /\ NoSpacings
    /\ NoTransform
    /\ NoDatasets
    /\ \E r \in { [script |-> "applyTransform", mode |-> "scan"],
                   [script |-> "applyTransform", mode |-> "manifest"],
                   [script |-> "applyTransform_fromManifest", mode |-> "scan"] },
          force \in BOOLEAN, dry_run \in BOOLEAN, w \in 1..MaxWorkers :
          run = [script |-> r.script, mode |-> r.mode, force |-> force,
                 dry_run |-> dry_run, max_workers |-> w]
    /\ \E n \in 1..MaxJobs :
          /\ \E f \in OutputPaths(n) :
                /\ run.mode = "scan" => \A j \in 1..n : f[j] = j
                /\ jobs = [j \in 1..n |-> [out_path |-> f[j]]]
          /\ \E files \in [1..n -> { Absent, Old }] :
                disk \in { Disk(files, FALSE), Disk(files, TRUE) }
          /\ thread = [j \in 1..n |-> [pc |-> "queued", status |-> ""]]
    /\ disk0 = disk
    /\ manifest_rows = << >>
    /\ results = << >>
    /\ bpc = "start"

NextBatch ==
    \/ Setup
    \/ \E j \in DOMAIN jobs : Begin(j)
    \/ \E j \in DOMAIN jobs : Transform(j)
    \/ \E j \in DOMAIN jobs : Record(j)
    \/ Collect
    \/ WriteMetadata
    \/ AppendManifest

SpecBatch == InitBatch /\ [][NextBatch]_vars

\* the worker threads and the main thread are scheduled, and every call of
\* the image library returns or raises: a step that can be taken is taken
SpecBatchFair == SpecBatch /\ WF_vars(NextBatch)

(* ---------------------------- vocabulary of the properties ------------- *)
Returned == pc = "returned"
N == Len(conf_in_twop_um)
M == Len(twop_um)
Rows == 1..Len(matches)

\* the source point carrying a label, and the target point carrying a label
SourceOf(label) == conf_in_twop_um[CHOOSE i \in 1..N : conf_labels[i] = label]
TargetOf(label) == twop_um[CHOOSE j \in 1..M : twop_labels[j] = label]

\* the Euclidean distance between the two points a row pairs
TrueDistance(row) == Euclid(SourceOf(row.conf_label), TargetOf(row.twoP_label))

\* how many rows of a frame satisfy a condition on the row
CountRows(frame, Cond(_)) == Cardinality({ k \in 1..Len(frame) : Cond(frame[k]) })

\* the total of the distance column
TotalDistance(frame) == SumSeq([k \in 1..Len(frame) |-> frame[k].distance_um])

(* ---------------------------- C1 --------------------------------------- *)
\* C1: under method "nn" the table has one row per source point, every source
\* label is in exactly one row, and every twoP_label is a label of the target
\* set.
C1_NNCompleteness ==
    (Returned /\ method = "nn") =>
        /\ Len(matches) = N
        /\ \A i \in 1..N :
              Cardinality({ k \in Rows : matches[k].conf_label = conf_labels[i] }) = 1
        /\ \A k \in Rows : \E j \in 1..M : matches[k].twoP_label = twop_labels[j]

\* an "nn" table of several rows in which one target label is used twice
C1_Witness ==
    /\ Returned /\ method = "nn"
    /\ \E k, l \in Rows : k # l /\ matches[k].twoP_label = matches[l].twoP_label

(* ---------------------------- C2 --------------------------------------- *)
\* C2: under method "hungarian", whatever the gate, the table has exactly
\* min(N, M) rows and no source label and no target label is in two rows.
C2_HungarianOneToOne ==
    (Returned /\ method = "hungarian") =>
        /\ Len(matches) = Min2(N, M)
        /\ \A k, l \in Rows :
              k # l => /\ matches[k].conf_label # matches[l].conf_label
                       /\ matches[k].twoP_label # matches[l].twoP_label

\* a "hungarian" table for more sources than targets under a finite gate
C2_Witness ==
    /\ Returned /\ method = "hungarian"
    /\ N > M
    /\ isfinite(max_distance_um)
    /\ Len(matches) = M

(* ---------------------------- C3 --------------------------------------- *)
\* C3: under method "nn" every row pairs its source with a target point at
\* minimal Euclidean distance from it, and distance_um is that minimal
\* distance; on the hand-built example the first source is paired with the
\* first target at distance 1 and the second source with the second target
\* at distance sqrt(3).
C3_NNNearest ==
    (Returned /\ method = "nn") =>
        /\ \A k \in Rows :
              /\ matches[k].distance_um = TrueDistance(matches[k])
              /\ \A j \in 1..M :
                    matches[k].distance_um <= Euclid(SourceOf(matches[k].conf_label), twop_um[j])
        /\ (conf_in_twop_um = ExampleSource /\ twop_um = ExampleTarget) =>
              \A k \in Rows :
                 LET d == matches[k].distance_um
                 IN  \/ /\ matches[k].conf_label = conf_labels[1]
                        /\ matches[k].twoP_label = twop_labels[1]
                        /\ d = Scale
                     \/ /\ matches[k].conf_label = conf_labels[2]
                        /\ matches[k].twoP_label = twop_labels[2]
                        /\ d * d <= 3 * Scale * Scale
                        /\ 3 * Scale * Scale < (d + 1) * (d + 1)

\* the example has been matched under "nn"
C3_Witness ==
    /\ Returned /\ method = "nn"
    /\ conf_in_twop_um = ExampleSource /\ twop_um = ExampleTarget
    /\ Len(matches) = 2

(* ---------------------------- C4 --------------------------------------- *)
\* the results method "nn" can give on the same point sets; their distances
\* are the same for every choice among equidistant targets
NNResults == nearest_neighbor_match(conf_in_twop_um, twop_um)

\* method "nn" can pair every source with a different target
NNOneToOne ==
    \E r \in NNResults :
        /\ \A i \in 1..N : r.nn[i] \in 1..M
        /\ \A i, j \in 1..N : r.nn[i] = r.nn[j] => i = j

\* a distance as hungarian_match reports it under the gate of the call
AsReported(d) ==
    IF isfinite(max_distance_um) /\ d > max_distance_um THEN max_distance_um * 10 ELSE d

\* C4 as claimed, at the default gate where every reported distance is the
\* true one: the total distance of the "hungarian" table is at most the total
\* distance of the "nn" pairing of the same point sets.
C4_HungarianTotalAtMostNN ==
    (Returned /\ method = "hungarian" /\ max_distance_um = Inf) =>
        \A r \in NNResults : TotalDistance(matches) <= SumSeq(r.dists)

\* C4 amended: whenever "nn" pairs every source with a different target, the
\* total distance "hungarian" reports is at most the total of the nn pairing's
\* distances, an nn distance above a finite gate counted as 10 x gate as
\* hungarian_match reports it.
C4_HungarianTotalAtMostOneToOneNN ==
    (Returned /\ method = "hungarian") =>
        LET nn_results == NNResults
            total   == TotalDistance(matches)
        IN  \A r \in nn_results :
               (/\ \A i \in 1..N : r.nn[i] \in 1..M
                /\ \A i, j \in 1..N : r.nn[i] = r.nn[j] => i = j) =>
                   total <= SumSeq([i \in 1..N |-> AsReported(r.dists[i])])

\* a "hungarian" table of two or more rows on inputs where nn is one-to-one,
\* under a finite gate that one of the assigned pairs exceeds
C4_Witness ==
    /\ Returned /\ method = "hungarian" /\ NNOneToOne
    /\ N >= 2
    /\ isfinite(max_distance_um)
    /\ \E k \in Rows : TrueDistance(matches[k]) > max_distance_um

(* ---------------------------- C5 --------------------------------------- *)
\* C5: under either method a matched pair whose distance exceeds
\* max_distance_um is a row of the table with within_gate false and with
\* distance_um equal to the Euclidean distance between the two paired points,
\* and it is not counted among the within-gate rows the statistics are over.
C5_OutOfGateRowKeepsLiteralDistance ==
    Returned =>
        /\ \A k \in Rows :
              TrueDistance(matches[k]) > max_distance_um =>
                  /\ matches[k].within_gate = FALSE
                  /\ matches[k].distance_um = TrueDistance(matches[k])
        /\ summary.N_within_gate =
              Cardinality({ k \in Rows : TrueDistance(matches[k]) <= max_distance_um })

(* ---------------------------- C6 --------------------------------------- *)
\* C6: under method "hungarian" with a finite gate >= 0 the assignment is
\* complete, min(N, M) pairs, and every assigned pair whose Euclidean distance
\* is greater than the gate has within_gate false.
C6_GatedHungarianMarksOutOfGate ==
    (Returned /\ method = "hungarian" /\ isfinite(max_distance_um) /\ max_distance_um >= 0) =>
        /\ Len(matches) = Min2(N, M)
        /\ \A k \in Rows :
              TrueDistance(matches[k]) > max_distance_um => matches[k].within_gate = FALSE

(* ---------------------------- C7 --------------------------------------- *)
\* C7: with the default gate, +infinity, under both methods every row has
\* within_gate true, N_within_gate equals N_total, and every distance_um is
\* the Euclidean distance between the two paired points.
C7_DefaultGateAcceptsAll ==
    (Returned /\ max_distance_um = Inf) =>
        /\ \A k \in Rows :
              /\ matches[k].within_gate = TRUE
              /\ matches[k].distance_um = TrueDistance(matches[k])
        /\ summary.N_within_gate = summary.N_total
        /\ summary.N_total = Len(matches)

\* a "hungarian" table of two or more rows under the default gate
C7_Witness ==
    /\ Returned /\ method = "hungarian" /\ max_distance_um = Inf
    /\ Len(matches) >= 2
    /\ \E k \in Rows : matches[k].distance_um > 0

(* ---------------------------- C8 --------------------------------------- *)
\* C8: the returned table is in non-decreasing distance_um order and holds
\* the rows of the frame as built, each row whole and as many times as
\* before the sort.
C8_SortedWholeRows ==
    Returned =>
        /\ \A k, l \in Rows : k < l => matches[k].distance_um <= matches[l].distance_um
        /\ Len(matches) = Len(unsorted)
        /\ \A k \in Rows :
              /\ CountRows(matches, LAMBDA r : r = matches[k])
                    = CountRows(unsorted, LAMBDA r : r = matches[k])
              /\ CountRows(matches, LAMBDA r : r = unsorted[k])
                    = CountRows(unsorted, LAMBDA r : r = unsorted[k])

\* a call whose frame was not in distance order: the sort moved rows
C8_Witness ==
    /\ Returned
    /\ Len(unsorted) >= 2
    /\ \E k, l \in 1..Len(unsorted) : k < l /\ unsorted[k].distance_um > unsorted[l].distance_um
    /\ matches # unsorted

(* ---------------------------- C9 --------------------------------------- *)
\* the distances of the within-gate rows of the table, in increasing order
WithinGateDistances ==
    SortedSeq(MaskSelect(Array([k \in Rows |-> matches[k].distance_um]),
                         Array([k \in Rows |-> matches[k].within_gate])))

\* q is the median of the non-empty increasing sequence w
IsMedian(q, w) ==
    LET n == Len(w)
    IN  /\ q.nan = FALSE
        /\ IF n % 2 = 1 THEN q.num = q.den * w[(n + 1) \div 2]
                        ELSE 2 * q.num = q.den * (w[n \div 2] + w[n \div 2 + 1])

\* q is the 90th percentile of the non-empty increasing sequence w: the value
\* at position 0.9 * (n - 1), counted from 0, interpolated linearly
IsPercentile90(q, w) ==
    LET n == Len(w)
    IN  /\ q.nan = FALSE
        /\ \E lo \in 1..n :
              /\ 10 * (lo - 1) <= 9 * (n - 1)
              /\ 9 * (n - 1) < 10 * lo
              /\ LET hi == IF lo < n THEN lo + 1 ELSE lo
                 IN  10 * q.num
                       = q.den * (10 * w[lo] + (9 * (n - 1) - 10 * (lo - 1)) * (w[hi] - w[lo]))

\* C9: the summary agrees with the table returned with it: N_total is the
\* number of rows, N_within_gate the number of rows with within_gate true,
\* frac_within_gate their quotient, median_um and p90_um the median and the
\* 90th percentile of the distance_um of the within-gate rows only.
C9_SummaryMatchesTable ==
    Returned =>
        /\ summary.N_total = Len(matches)
        /\ summary.N_within_gate = CountRows(matches, LAMBDA r : r.within_gate)
        /\ summary.frac_within_gate.nan = FALSE
        /\ summary.frac_within_gate.num * summary.N_total
              = summary.N_within_gate * summary.frac_within_gate.den
        /\ WithinGateDistances # << >> =>
              /\ IsMedian(summary.median_um, WithinGateDistances)
              /\ IsPercentile90(summary.p90_um, WithinGateDistances)

\* a table with a row within the gate and a row outside it
C9_Witness ==
    /\ Returned
    /\ Len(WithinGateDistances) >= 1
    /\ \E k \in Rows : matches[k].within_gate = FALSE

(* ---------------------------- C10 -------------------------------------- *)
\* C10: if every matched pair exceeds the gate, the call still returns, with
\* N_within_gate 0, frac_within_gate 0.0, and median_um and p90_um NaN.
C10_AllOutOfGate ==
    (Returned /\ \A k \in Rows : TrueDistance(matches[k]) > max_distance_um) =>
        /\ summary.N_within_gate = 0
        /\ summary.frac_within_gate.nan = FALSE
        /\ summary.frac_within_gate.num = 0
        /\ summary.median_um = NaN
        /\ summary.p90_um = NaN

(* ---------------------------- C11 -------------------------------------- *)
\* C11: under both methods and for any N and M, the conf_*_um columns of a
\* row are the coordinates of the source point whose label is the row's
\* conf_label, and the twoP_*_um columns those of the target point whose
\* label is the row's twoP_label.
C11_RowCoordinatesAreOfItsLabels ==
    Returned =>
        \A k \in Rows :
            /\ matches[k].conf_um = SourceOf(matches[k].conf_label)
            /\ matches[k].twoP_um = TargetOf(matches[k].twoP_label)

(* ---------------------------- C12 -------------------------------------- *)
\* C12: whenever the source point set or the target point set is empty, under
\* either method, the call fails with the dedicated empty-point-set error and
\* returns no table and no summary.
C12_EmptyPointSetFails ==
    (pc # "call" /\ (N = 0 \/ M = 0)) =>
        /\ pc = "raised"
        /\ error = "EmptyPointSetError"
        /\ matches = << >>
        /\ summary = NoSummary

(* ---------------------------- C13 -------------------------------------- *)
\* C13: whenever the number of source labels differs from the number of
\* source points, or the number of target labels from the number of target
\* points, in either direction, the call fails with an error and returns no
\* table.
C13_LabelCountMismatchFails ==
    (pc # "call" /\ (Len(conf_labels) # N \/ Len(twop_labels) # M)) =>
        /\ pc = "raised"
        /\ matches = << >>

(* ---------------------------- C14 -------------------------------------- *)
\* the call sequence um_to_index_dataframe, index_df_to_um has returned
RoundTripDone ==
    tpc = "done" /\ called = << "um_to_index_dataframe", "index_df_to_um" >>

\* a reproduces b up to floating-point rounding: relative error at most
\* 2^-(Precision - 2), the rounding of one division and one multiplication
Reproduces(a, b) ==
    (IF a >= b THEN a - b ELSE b - a) * Pow2(Precision - 2) <= b

\* C14: for any Spacing, 2D or 3D, and any points of the same dimensionality,
\* um_to_index_dataframe followed by index_df_to_um with the same Spacing
\* reproduces the micron coordinates (up to floating-point rounding), every
\* value in its original column: each axis is divided and then multiplied by
\* its own spacing, and the frame in between has the columns (x, y, z) or
\* (x, y).
C14_RoundTrip ==
    (RoundTripDone /\ fixed_spacing = moving_spacing) =>
        LET sp == voxel_tuple(moving_spacing)
            d  == Len(sp)
        IN  /\ moving_idx.columns = (IF d = 3 THEN << "x", "y", "z" >> ELSE << "x", "y" >>)
            /\ Len(out) = Len(points_um)
            /\ \A i \in 1..Len(points_um) :
                  /\ Len(out[i]) = d
                  /\ \A k \in 1..d :
                        /\ moving_idx.col[moving_idx.columns[d + 1 - k]][i]
                              = FDiv(points_um[i][k], sp[k])
                        /\ out[i][k] = FMul(FDiv(points_um[i][k], sp[k]), sp[k])
                        /\ Reproduces(out[i][k], points_um[i][k])

\* a round trip under a 3D Spacing of three different magnitudes in which a
\* coordinate comes back rounded
C14_Witness ==
    /\ RoundTripDone /\ fixed_spacing = moving_spacing
    /\ ndim(moving_spacing) = 3
    /\ moving_spacing.dz # moving_spacing.dy /\ moving_spacing.dy # moving_spacing.dx
    /\ \E i \in 1..Len(points_um) : out[i][3] # points_um[i][3]
    /\ \E i \in 1..Len(points_um) : out[i][1] = points_um[i][1] /\ out[i][1] > 0

(* ---------------------------- C15 -------------------------------------- *)
\* C15: um_to_index_dataframe, index_df_to_um and apply_transforms_to_points
\* (whose moving and fixed Spacing may differ in dimensionality) fail with an
\* error when the number of point columns differs from the dimensionality of
\* the Spacing: a conversion that returns has dropped or invented no axis.
C15_DimensionMismatchFails ==
    (tpc \in { "indexed", "done" } /\ called # << "warp_label_mask" >>) =>
        /\ NCols(points_um) = ndim(moving_spacing)
        /\ tpc = "done" =>
              /\ ndim(fixed_spacing) = ndim(moving_spacing)
              /\ NCols(out) = NCols(points_um)

(* ---------------------------- C20 -------------------------------------- *)
\* C20: warp_label_mask and apply_transforms_to_points hand the external
\* operator the transform steps in the order of TransformConfig.paths, step i
\* being the file of paths[i], and the invert_flags the caller supplied
\* unchanged, flag i with step i; nothing is reordered, dropped or added, and
\* the operator is called once.
C20_StepsForwardedInOrder ==
    /\ \A c \in 1..Len(operator_calls) :
          LET call == operator_calls[c]
          IN  /\ Len(call.transformlist) = Len(transform_config.paths)
              /\ \A i \in 1..Len(call.transformlist) :
                    call.transformlist[i] = PathStr(transform_config.paths[i])
              /\ transform_config.invert_flags.given =>
                    call.whichtoinvert = transform_config.invert_flags.flags
    /\ (tpc = "done" /\ called \in { << "warp_label_mask" >>, << "apply_transforms_to_points" >> })
          => Len(operator_calls) = 1

\* warp_label_mask has handed the operator two different steps with two
\* different flags supplied by the caller
C20_Witness ==
    /\ tpc = "done" /\ called = << "warp_label_mask" >>
    /\ Len(operator_calls) = 1
    /\ Len(transform_config.paths) = 2
    /\ transform_config.paths[1] # transform_config.paths[2]
    /\ transform_config.invert_flags.given
    /\ operator_calls[1].whichtoinvert = << TRUE, FALSE >>
    /\ operator_calls[1].transformlist[1].suffix = ".MAT"

(* ---------------------------- C16 -------------------------------------- *)
\* the second half of C16: a Spacing that exists is never changed
SpacingsNeverChange == [][spacings # {} => spacings' = spacings]_vars

\* C16: constructing a Spacing, directly or by from_mapping, fails when dy, dx
\* or dz is zero or negative or when dy or dx is missing, so that every
\* Spacing that exists has strictly positive magnitudes (and, being frozen,
\* keeps them: SpacingsNeverChange).
C16_SpacingsArePositive ==
    \A sp \in spacings :
        /\ sp.dy # None /\ sp.dy > 0
        /\ sp.dx # None /\ sp.dx > 0
        /\ sp.dz = None \/ sp.dz > 0


(* ---------------------------- pipeline inputs -------------------------- *)
\* the volumes of the pipeline: (Z,Y,X) = (4,1,1)
PipelineShape == << 4, 1, 1 >>

\* a volume with one label, on one voxel
OneLabelMask(label, voxel) ==
    NdArray(PipelineShape,
            [idx \in IndicesOf(PipelineShape) |-> IF idx = voxel THEN label ELSE 0],
            "uint16")

\* voxel sizes of the two volumes: (dz,dy,dx) = (2,1,1), (1,1,1), (1.75,1,1)
PipelineSpacings ==
    { [dy |-> FloatOf(1), dx |-> FloatOf(1), dz |-> dz] :
        dz \in { FloatOf(2), FloatOf(1), 7 * Quarter } }

\* run_pipeline(config, ants_module=ants_module): the two datasets as
\* load_mask_dataset builds them, the transforms, the method and the gate
InitPipeline ==
    /\ NoSpacings
    /\ NoBatch
    /\ \E vc \in IndicesOf(PipelineShape), vt \in IndicesOf(PipelineShape) :
       \E sc \in PipelineSpacings, st \in PipelineSpacings :
          datasets = [name \in { "conf", "twop" } |->
                        IF name = "conf" THEN MaskDataset(sc, OneLabelMask(1, vc))
                                         ELSE MaskDataset(st, OneLabelMask(3, vt))]
    /\ answer = Ok(<< >>)
    /\ queried = << >>
    /\ views = {}
    /\ points_um = << >>
    /\ moving_spacing = [dy |-> FloatOf(1), dx |-> FloatOf(1), dz |-> FloatOf(1)]
    /\ fixed_spacing = [dy |-> FloatOf(1), dx |-> FloatOf(1), dz |-> FloatOf(1)]
    /\ transform_config = PlainConfig
    /\ ants_module \in { NoModule, IdentityModule, "ants" }
    /\ moving_mask = NdArray(<< >>, << >>, "")
    /\ fixed_mask = NdArray(<< >>, << >>, "")
    /\ reference_paths = FALSE
    /\ operator_calls = << >>
    /\ moving_idx = Frame(<< >>, << >>)
    /\ out = << >>
    /\ called = << >>
    /\ tpc = "pipeline"
    /\ terror = ""
    /\ conf_labels = << >>
    /\ twop_labels = << >>
    /\ conf_in_twop_um = << >>
    /\ twop_um = << >>
    /\ method \in Methods
    /\ max_distance_um \in GateValues
    /\ pc = "idle"
    /\ error = ""
    /\ unsorted = << >>
    /\ matches = << >>
    /\ summary = NoSummary
    /\ library = NoAnswers
    /\ journal = << >>
    /\ helpers = {}

NextPipeline == RunPipeline \/ MatchNN \/ MatchHungarian

SpecPipeline == InitPipeline /\ [][NextPipeline]_vars

(* ---------------------------- C17, C18 --------------------------------- *)
\* the positive labels that occur in a mask
PresentLabels(mask) == { mask.data[idx] : idx \in DOMAIN mask.data } \ { 0 }

\* the voxels of a label
VoxelsOf(mask, l) == { idx \in DOMAIN mask.data : mask.data[idx] = l }

\* a centroid table has one row for each positive label of the mask and no
\* other row, and the row of a label of one voxel holds the index of the voxel
TableDescribes(df, mask) ==
    LET label == df.col["label"]
        axes  == SubSeq(df.columns, 2, Len(df.columns))
    IN  /\ \A i, j \in 1..Len(label) : label[i] = label[j] => i = j
        /\ { label[i] : i \in 1..Len(label) } = PresentLabels(mask)
        /\ \A i \in 1..Len(label) : \A idx \in VoxelsOf(mask, label[i]) :
              VoxelsOf(mask, label[i]) = { idx } =>
                 /\ Len(axes) = Len(idx)
                 /\ \A k \in 1..Len(axes) : df.col[axes[k]][i] = FloatOf(idx[k])

\* C17: the centroid table that a MaskDataset computes, and the table of
\* compute_centroids, have exactly one row for each distinct positive label
\* that occurs in the mask, none for label 0 or for a label that does not
\* occur, and a label of a single voxel has the index of that voxel as centroid
C17_OneRowPerPresentLabel ==
    [][ /\ \A name \in DOMAIN datasets :
              (datasets[name].centroids_idx = NoTable
                  /\ datasets'[name].centroids_idx # NoTable)
              => TableDescribes(datasets'[name].centroids_idx, datasets'[name].mask)
        /\ \A name \in DOMAIN datasets :
              (queried' # queried /\ queried'[Len(queried')] = << name, "compute_centroids" >>)
              => TableDescribes(answer'.value, datasets'[name].mask)
      ]_vars

\* a table was computed for a mask with the labels 1 and 3, label 2 missing,
\* label 3 on a single voxel and label 1 on several
C17_Witness ==
    /\ "conf" \in DOMAIN datasets
    /\ datasets["conf"].centroids_idx # NoTable
    /\ datasets["conf"].centroids_idx.col["label"] = << 1, 3 >>
    /\ PresentLabels(datasets["conf"].mask) = { 1, 3 }
    /\ Cardinality(VoxelsOf(datasets["conf"].mask, 3)) = 1
    /\ Cardinality(VoxelsOf(datasets["conf"].mask, 1)) > 1
    /\ TableDescribes(datasets["conf"].centroids_idx, datasets["conf"].mask)

\* C18: whatever replacements of the mask and queries came before, a call of
\* centroid_indices(), labels() or centroid_positions_um() returns what the
\* mask that the dataset holds at the call gives
C18_QueriesDescribeCurrentMask ==
    [][ \A name \in DOMAIN datasets : \A q \in Queries :
           (queried' # queried /\ queried'[Len(queried')] = << name, q >>)
           => answer' = Query(q, MaskDataset(datasets'[name].spacing, datasets'[name].mask))
      ]_vars


(* ---------------------------- C19 -------------------------------------- *)
\* the voxels of a mask that carry a label
Labelled(mask) == { idx \in DOMAIN mask.data : mask.data[idx] # 0 }

\* run_pipeline has returned for two volumes with one label each, on the same
\* voxel index, with an identity point transform and a gate of 0 or more
IdentityPipelineReturned ==
    /\ tpc = "done"
    /\ Returned
    /\ ants_module = IdentityModule
    /\ max_distance_um >= 0
    /\ Cardinality(Labelled(datasets["conf"].mask)) = 1
    /\ Labelled(datasets["conf"].mask) = Labelled(datasets["twop"].mask)

\* multiplying and dividing by such a voxel size is exact in binary floats
IsPowerOfTwo(x) == \E e \in 0..(2 * FracBits) : x = Pow2(e)
PowerOfTwoSpacing(sp) ==
    /\ IsPowerOfTwo(sp.dy)
    /\ IsPowerOfTwo(sp.dx)
    /\ sp.dz # None => IsPowerOfTwo(sp.dz)

\* the largest coordinate of a point
MaxCoord(p) == CHOOSE c \in { p[k] : k \in 1..Len(p) } : \A k \in 1..Len(p) : p[k] <= c

\* C19 as stated: with one label on the same voxel index in both volumes and
\* an identity point transform, the pipeline yields a single match of distance
\* 0 that is within the gate, for every gate >= 0 and any pair of spacings
C19_IdentityPipelineExactMatch ==
    IdentityPipelineReturned =>
        /\ Len(matches) = 1
        /\ matches[1].distance_um = 0
        /\ matches[1].within_gate

\* C19 amended: the pipeline yields a single match; its distance is 0 and it
\* is within every gate >= 0 when the voxel sizes of both volumes are powers
\* of two (as dz=2, dy=dx=1 against dz=dy=dx=1); for other voxel sizes the
\* distance is 0 up to the rounding of the conversions
C19_IdentityPipelineMatchUpToRounding ==
    IdentityPipelineReturned =>
        /\ Len(matches) = 1
        /\ matches[1].conf_label = 1
        /\ matches[1].twoP_label = 3
        /\ (PowerOfTwoSpacing(datasets["conf"].spacing)
               /\ PowerOfTwoSpacing(datasets["twop"].spacing))
           => (matches[1].distance_um = 0 /\ matches[1].within_gate)
        /\ matches[1].distance_um * Pow2(Precision - 2)
              <= Scale * MaxCoord(matches[1].twoP_um)

\* the example: the label on voxel (2,0,0), source dz=2, dy=dx=1, target
\* dz=dy=dx=1, gate 0: one match of distance 0 within the gate
C19_Witness ==
    /\ IdentityPipelineReturned
    /\ Labelled(datasets["conf"].mask) = { << 2, 0, 0 >> }
    /\ datasets["conf"].spacing = [dy |-> FloatOf(1), dx |-> FloatOf(1), dz |-> FloatOf(2)]
    /\ datasets["twop"].spacing = [dy |-> FloatOf(1), dx |-> FloatOf(1), dz |-> FloatOf(1)]
    /\ max_distance_um = 0
    /\ Len(matches) = 1
    /\ matches[1].distance_um = 0
    /\ matches[1].within_gate
    /\ matches[1].twoP_um = << FloatOf(2), 0, 0 >>


(* ---------------------------- C21 -------------------------------------- *)
\* warp_label_mask has returned
Warped == tpc = "done" /\ called = << "warp_label_mask" >>

\* C21: every call warp_label_mask makes to the resampling operator asks for
\* nearest-neighbour interpolation; the volume it returns has the dtype of the
\* moving mask and, for a 3D moving mask, is the operator's (x,y,z) result
\* with the axes put back in (Z,Y,X) order
C21_NearestNeighbourAndNativeOrder ==
    /\ \A c \in 1..Len(operator_calls) :
          operator_calls[c].fn = "apply_transforms"
             => operator_calls[c].interpolator = "nearestNeighbor"
    /\ Warped =>
          /\ Len(operator_calls) = 1
          /\ out.dtype = moving_mask.dtype
          /\ Len(moving_mask.shape) = 3 =>
                \E w \in OperatorImage(operator_calls[1].fixed, operator_calls[1].moving) :
                   /\ out.shape = Reverse(w.shape)
                   /\ \A idx \in IndicesOf(out.shape) : out.data[idx] = w.data[Reverse(idx)]

\* a 3D uint16 mask was warped onto a grid of two voxels along x with
\* reference images and two transform steps: the result is (1,1,2) in
\* (Z,Y,X) order with the labels growing along the last axis
C21_Witness ==
    /\ Warped
    /\ reference_paths
    /\ Len(transform_config.paths) = 2
    /\ Len(moving_mask.shape) = 3
    /\ moving_mask.dtype = "uint16"
    /\ out.dtype = "uint16"
    /\ out.shape = << 1, 1, 2 >>
    /\ out.data[<< 0, 0, 1 >>] = 2
    /\ operator_calls[1].interpolator = "nearestNeighbor"


(* ---------------------------- repeated calls --------------------------- *)
\* point sets of the repeated calls: two sources that are each at the same
\* distance from two targets, and a source without any target
CallPoints ==
    { << << <<0, 0, 1>>, <<0, 0, 1>> >>, << <<0, 0, 0>>, <<0, 1, 1>> >> >>,
      << << <<0, 0, 0>> >>, << >> >> }

\* what a call gave its caller
Outcome ==
    [args |-> args, pc |-> pc, error |-> error, matches |-> matches, summary |-> summary]

InitCalls ==
    /\ NoSpacings
    /\ NoTransform
    /\ NoDatasets
    /\ NoBatch
    /\ \E pp \in CallPoints :
          /\ conf_in_twop_um = pp[1]
          /\ twop_um = pp[2]
          /\ conf_labels = SourceLabels(Len(pp[1]))
          /\ twop_labels = TargetLabels(Len(pp[2]))
    /\ method \in Methods
    /\ max_distance_um \in { Scale, Inf }
    /\ pc = "call"
    /\ error = ""
    /\ unsorted = << >>
    /\ matches = << >>
    /\ summary = NoSummary
    /\ library = NoAnswers
    /\ journal = << >>
    /\ helpers = {}

\* the caller notes what the call gave and calls match_centroids again
CallAgain ==
    /\ pc \in { "returned", "raised" }
    /\ Len(journal) < MaxCalls
    /\ journal' = Append(journal, Outcome)
    /\ \E pp \in CallPoints :
          /\ conf_in_twop_um' = pp[1]
          /\ twop_um' = pp[2]
          /\ conf_labels' = SourceLabels(Len(pp[1]))
          /\ twop_labels' = TargetLabels(Len(pp[2]))
    /\ method' \in Methods
    /\ max_distance_um' \in { Scale, Inf }
    /\ pc' = "call"
    /\ error' = ""
    /\ unsorted' = << >>
    /\ matches' = << >>
    /\ summary' = NoSummary
    /\ UNCHANGED << library, helpers, non_match_vars >>

NextCalls == MatchNN \/ MatchHungarian \/ CallAgain

SpecCalls == InitCalls /\ [][NextCalls]_vars

(* ---------------------------- C22 -------------------------------------- *)
\* the calls that have ended, the current one included
Ended == IF pc = "call" THEN journal ELSE Append(journal, Outcome)

\* calls with equal arguments gave equal tables, summaries and exceptions
SameArgumentsSameOutcome ==
    \A i, j \in 1..Len(Ended) : Ended[i].args = Ended[j].args => Ended[i] = Ended[j]

\* C22: a call of match_centroids leaves its label and point arrays as they
\* were, and after any sequence of calls a call with equal labels, points,
\* method and gate returns the table and summary the first such call returned
C22_StatelessAndArgumentsKept ==
    [][ /\ (pc = "call" /\ pc' # "call") => args' = args
        /\ SameArgumentsSameOutcome'
      ]_vars

\* the third call repeats the first, with another call in between: nn on two
\* sources that each have two nearest targets, rows of equal distance
C22_Witness ==
    /\ Len(journal) = 2
    /\ pc = "returned"
    /\ journal[1].args = args
    /\ journal[2].args # args
    /\ method = "nn"
    /\ Len(matches) = 2
    /\ matches[1].distance_um = matches[2].distance_um
    /\ matches = journal[1].matches
    /\ summary = journal[1].summary


(* ---------------------------- copies of hungarian_match ---------------- *)
\* tools/labels.py: C[C > max_cost] = max_cost when max_cost is finite
CostMatrix_labels(A_um, B_um, max_cost) ==
    LET C == cdist(A_um, B_um)
    IN  IF isfinite(max_cost)
        THEN Array([i \in 1..Len(A_um) |-> Array([j \in 1..Len(B_um) |->
                 IF C[i][j] > max_cost THEN max_cost ELSE C[i][j]])])
        ELSE C

\* antsQC_notebook_code.py: np.where(C > max_cost, max_cost * 10.0, C)
CostMatrix_notebook(A_um, B_um, max_cost) ==
    LET C == cdist(A_um, B_um)
    IN  IF isfinite(max_cost)
        THEN Array([i \in 1..Len(A_um) |-> Array([j \in 1..Len(B_um) |->
                 IF C[i][j] > max_cost THEN max_cost * 10 ELSE C[i][j]])])
        ELSE C

\* the cost matrix of hungarian_match in each module that defines it
HelperCost(module) ==
    CASE module = "antsQC" -> CostMatrix(conf_in_twop_um, twop_um, max_distance_um)
      [] module = "tools.labels" -> CostMatrix_labels(conf_in_twop_um, twop_um, max_distance_um)
      [] module = "antsQC_notebook_code" ->
            CostMatrix_notebook(conf_in_twop_um, twop_um, max_distance_um)

\* hungarian_match(A_um, B_um, max_cost) of one module on the point sets and
\* the gate: dists = C[row_ind, col_ind], col_ind, row_ind
HungarianHelper(module) ==
    /\ pc = "helpers"
    /\ \A e \in helpers : e[1] # module
    /\ LET C == HelperCost(module)
       IN  \E a \in Known(library.lsa, C,
                          linear_sum_assignment(C, Len(conf_in_twop_um), Len(twop_um))) :
              /\ helpers' = helpers \cup
                    { << module,
                         [dists   |-> Array([i \in 1..Len(a.row_ind) |->
                                                C[a.row_ind[i]][a.col_ind[i]]]),
                          col_ind |-> a.col_ind,
                          row_ind |-> a.row_ind] >> }
              /\ library' = [library EXCEPT !.lsa = @ \cup { << C, a >> }]
    /\ UNCHANGED << args, pc, error, unsorted, matches, summary, journal, non_match_vars >>

\* point sets and a gate for the three copies
InitHelpers ==
    /\ NoSpacings
    /\ NoTransform
    /\ NoDatasets
    /\ NoBatch
    /\ \E pp \in PointInputs :
          /\ conf_in_twop_um = pp[1]
          /\ twop_um = pp[2]
          /\ conf_labels = SourceLabels(Len(pp[1]))
          /\ twop_labels = TargetLabels(Len(pp[2]))
    /\ method = "hungarian"
    /\ max_distance_um \in { 0, Scale, Inf }
    /\ pc = "helpers"
    /\ error = ""
    /\ unsorted = << >>
    /\ matches = << >>
    /\ summary = NoSummary
    /\ library = NoAnswers
    /\ journal = << >>
    /\ helpers = {}

NextHelpers ==
    \E module \in { "antsQC", "tools.labels", "antsQC_notebook_code" } : HungarianHelper(module)

SpecHelpers == InitHelpers /\ [][NextHelpers]_vars

(* ---------------------------- C30 -------------------------------------- *)
\* C30: for the same point sets and the same finite gate the copies of
\* hungarian_match in antsQC.py, tools/labels.py and antsQC_notebook_code.py
\* return the same assignment and the same distances, and each reports a
\* distance above the gate for a pair whose true distance is above the gate
C30_HungarianCopiesAgree ==
    isfinite(max_distance_um) =>
        /\ \A e1, e2 \in helpers : e1[2] = e2[2]
        /\ \A e \in helpers : \A i \in 1..Len(e[2].row_ind) :
              Euclid(conf_in_twop_um[e[2].row_ind[i]], twop_um[e[2].col_ind[i]])
                  > max_distance_um
              => e[2].dists[i] > max_distance_um


(* ---------------------------- C25 -------------------------------------- *)
\* the first target, in array order, among those nearest to a point
FirstNearest(p) ==
    CHOOSE j \in 1..M :
        /\ \A k \in 1..M : Euclid(p, twop_um[j]) <= Euclid(p, twop_um[k])
        /\ \A k \in 1..(j - 1) : Euclid(p, twop_um[k]) > Euclid(p, twop_um[j])

\* C25: under method "nn" the target reported for a source is the first one
\* in the target array among the targets at the minimal distance from it
C25_NNTieFirstOccurrence ==
    (Returned /\ method = "nn") =>
        \A k \in Rows :
            matches[k].twoP_label = twop_labels[FirstNearest(SourceOf(matches[k].conf_label))]


(* ---------------------------- C26 -------------------------------------- *)
\* invert_flags is given with a length other than the number of paths
FlagsMismatch ==
    /\ transform_config.invert_flags.given
    /\ Len(transform_config.invert_flags.flags) # Len(transform_config.paths)

\* a call that went through as_lists has returned
ListsUsed ==
    /\ tpc = "done"
    /\ called \in { << "warp_label_mask" >>, << "apply_transforms_to_points" >> }

\* the suffix of a path is ".mat" in any case
IsMat(p) == p.suffix \in { ".mat", ".MAT", ".Mat" }

\* C26: as_lists raises ValueError exactly when invert_flags is given with a
\* length other than the number of paths; otherwise the path list and the
\* flag list it returns are equally long, and when invert_flags is not given
\* the flag of a ".mat" path (in any case) is invert_affine and every other
\* flag is False
C26_AsListsFlags ==
    /\ ListsUsed => ~ FlagsMismatch
    /\ (tpc = "raised" /\ ants_module # NoModule /\ FlagsMismatch)
          => (terror = "ValueError" /\ operator_calls = << >>)
    /\ (tpc = "raised" /\ terror = "ValueError" /\ transform_config.invert_flags.given)
          => FlagsMismatch
    /\ \A c \in 1..Len(operator_calls) :
          LET call == operator_calls[c]
          IN  /\ Len(call.transformlist) = Len(call.whichtoinvert)
              /\ ~ transform_config.invert_flags.given =>
                    \A i \in 1..Len(call.whichtoinvert) :
                       call.whichtoinvert[i] =
                          (IsMat(transform_config.paths[i]) /\ transform_config.invert_affine)

\* flags inferred for a warp followed by "affine.MAT" with invert_affine set:
\* False for the warp, True for the affine
C26_Witness ==
    /\ ListsUsed
    /\ ~ transform_config.invert_flags.given
    /\ transform_config.invert_affine
    /\ Len(transform_config.paths) = 2
    /\ transform_config.paths[1].suffix = ".gz"
    /\ transform_config.paths[2].suffix = ".MAT"
    /\ operator_calls[1].whichtoinvert = << FALSE, TRUE >>


(* ---------------------------- C28 -------------------------------------- *)
\* the micron coordinates of the rows of an index table, the spacing applied
\* once
ScaledOnce(df, sp) ==
    IF ndim(sp) = 3
    THEN [i \in 1..NRows(df) |-> << FMul(df.col["z"][i], sp.dz),
                                    FMul(df.col["y"][i], sp.dy),
                                    FMul(df.col["x"][i], sp.dx) >>]
    ELSE [i \in 1..NRows(df) |-> << FMul(df.col["y"][i], sp.dy),
                                    FMul(df.col["x"][i], sp.dx) >>]

\* C28: once computed, the cached index table of a dataset is changed neither
\* by a query nor by a write of the caller into a returned value; every
\* centroid_indices() returns that table, every labels() its label column
\* and every centroid_positions_um() its rows scaled once by the spacing, row
\* i being the row of labels()[i]
C28_ReturnedValuesIndependentOfCache ==
    [][ \A name \in DOMAIN datasets :
          LET before == datasets[name].centroids_idx
              cached == datasets'[name].centroids_idx
          IN  /\ before # NoTable => cached = before
              /\ (queried' # queried /\ queried'[Len(queried')] = << name, "centroid_indices" >>)
                    => answer'.value = cached
              /\ (queried' # queried /\ queried'[Len(queried')] = << name, "labels" >>)
                    => answer'.value = cached.col["label"]
              /\ (queried' # queried
                     /\ queried'[Len(queried')] = << name, "centroid_positions_um" >>)
                    => /\ answer'.value = ScaledOnce(cached, datasets'[name].spacing)
                       /\ Len(answer'.value) = Len(cached.col["label"])
      ]_vars

\* centroid_positions_um() was called, the caller overwrote the array, and a
\* second call returned the same coordinates again, for a label off the
\* origin and a spacing other than 1
C28_Witness ==
    /\ queried = << << "conf", "centroid_positions_um" >>, << "conf", "write" >>,
                    << "conf", "centroid_positions_um" >> >>
    /\ datasets["conf"].centroids_idx.col["label"] = << 1, 3 >>
    /\ datasets["conf"].spacing.dx = 6 * Quarter
    /\ answer.value = ScaledOnce(datasets["conf"].centroids_idx, datasets["conf"].spacing)
    /\ answer.value[2][Len(answer.value[2])] = 6 * Quarter


(* ---------------------------- C23 -------------------------------------- *)
\* C23: in a run with --dry-run the disk stays as the run found it: no
\* directory, output image, transMetadata.csv or transManifest.csv row is
\* created or changed, in any mode of either script
C23_DryRunLeavesDiskAlone ==
    run.dry_run => disk = disk0


(* ---------------------------- C24 -------------------------------------- *)
\* C24: without --force no step of a run changes an output file that
\* exists, however the worker threads interleave and also when two jobs have
\* the same output path
C24_NoForceNeverOverwrites ==
    [][ ~run.force =>
           \A path \in DOMAIN disk.files :
              Exists(disk, path) => disk'.files[path] = disk.files[path]
      ]_vars


(* ---------------------------- C27 -------------------------------------- *)
\* the rows of transManifest.csv that were not there when the run began,
\* the header line of a new file left out
AppendedRows ==
    LET kept == IF disk0.log = << >> /\ disk.log # << >> THEN 1 ELSE Len(disk0.log)
    IN  SubSeq(disk.log, kept + 1, Len(disk.log))

\* the rows about job j among them
RowsOf(j) == { k \in DOMAIN AppendedRows : AppendedRows[k].job = j }

\* C27: when main() is done, transManifest.csv begins with what it held
\* before the run (a new file with the header line), and what follows is one
\* row for each job whose result is 'success' or 'failed', with that status,
\* and no row for a job that was skipped or dry-run
C27_OneManifestRowPerAttempt ==
    bpc = "done" =>
        /\ Len(disk.log) >= Len(disk0.log)
        /\ SubSeq(disk.log, 1, Len(disk0.log)) = disk0.log
        /\ (disk0.log = << >> /\ disk.log # << >>) => disk.log[1] = HeaderRow
        /\ \A k \in DOMAIN AppendedRows : AppendedRows[k].job \in DOMAIN jobs
        /\ \A j \in DOMAIN jobs :
              IF results[j].status \in { "success", "failed" }
              THEN /\ Cardinality(RowsOf(j)) = 1
                   /\ \A k \in RowsOf(j) : AppendedRows[k].status = results[j].status
              ELSE RowsOf(j) = {}

\* two workers have run two jobs of different outputs, one skipped and
\* one transformed, and the row of the second follows the rows of an
\* earlier run
C27_Witness ==
    /\ bpc = "done"
    /\ run.max_workers = 2
    /\ Len(disk0.log) = 2
    /\ Len(jobs) = 2
    /\ results[1].status = "skipped"
    /\ results[2].status = "success"
    /\ disk.log = disk0.log \o << [job |-> 2, status |-> "success"] >>


(* ---------------------------- C29 -------------------------------------- *)
\* the results collected so far are those of the first jobs of the queue, in
\* the order of the queue, each with the status its job ended with
ResultsInQueueOrder ==
    /\ Len(results) <= Len(jobs)
    /\ \A k \in DOMAIN results :
          /\ results[k].job = k
          /\ results[k].status \in { "skipped", "dry_run", "success", "failed" }
          /\ results[k].status = thread[k].status

\* every job of the queue has its result
AllCollected == Len(results) = Len(jobs)

\* C29: in every run the results are collected in the order of the queue,
\* one for a job, each 'skipped', 'dry_run', 'success' or 'failed', and in the
\* end every job of the queue has its result, whichever jobs failed
C29_EveryJobYieldsOneResult ==
    /\ []ResultsInQueueOrder
    /\ <>[](bpc = "done" /\ AllCollected)

\* the first of two jobs failed and the second, begun after it, succeeded
C29_Witness ==
    /\ bpc = "done"
    /\ Len(jobs) = 2
    /\ Len(results) = 2
    /\ results[1].status = "failed"
    /\ results[2].status = "success"

====
